---- MODULE Spec2Model ----
(***************************************************************************)
(* Batch sync engine of anidb-to-trakt: TraktSyncer (src/src/trakt_sync.py) *)
(* driving TraktClient._request (src/src/trakt_client.py).                 *)
(*                                                                         *)
(* One run of TraktSyncer.sync is modelled.  The engine is single-threaded; *)
(* a state of the model is a point where the run blocks (the network I/O of *)
(* one iteration of the client's request loop, the backoff sleep) or a      *)
(* phase boundary of sync.  A user interruption can arrive at any of them.  *)
(***************************************************************************)
EXTENDS Integers, Sequences, FiniteSets, TLC

(***************************************************************************)
(* Program constants                                                       *)
(***************************************************************************)
BATCH_SIZE == 50
MAX_CONSECUTIVE_FAILURES == 3
BACKOFF_BASE_SECONDS == 5
MAX_BACKOFF_SECONDS == 60
\* default of the retries parameter of TraktClient._request
retries == 3
\* default of the Retry-After header in TraktClient._request
DEFAULT_RETRY_AFTER == 60

(***************************************************************************)
(* Bounds of the model                                                     *)
(***************************************************************************)
\* number of items of a non-empty input list: two batches of a list on its
\* own (50, 10); two such lists make three rating batches (50, 50, 20), the
\* second holding shows and movies
LongList == 60
\* a Retry-After value the server may send with a 429
MaxRetryAfter == 7

ListLengths == {0, LongList}
RetryAfters == {DEFAULT_RETRY_AFTER, MaxRetryAfter}

Min(a, b) == IF a < b THEN a ELSE b

(***************************************************************************)
(* Payloads.  An item is identified by its position in its input list; a    *)
(* payload is a record with the two keys of the remote API, an empty list   *)
(* standing for an absent key.                                              *)
(***************************************************************************)
Items(n) == [k \in 1..n |-> k]

Payload(ns, nm) == [shows |-> Items(ns), movies |-> Items(nm)]

Payloads == {Payload(ns, nm) : ns \in ListLengths, nm \in ListLengths}

\* truth value of a payload passed to sync: the empty dict {} is false
Truthy(data) == Len(data.shows) + Len(data.movies) > 0

\* seasons of a history show item, as the list of the episode counts
SeasonsOf(show) ==
    IF show % 3 = 0 THEN <<2, 1>> ELSE IF show % 3 = 1 THEN <<1>> ELSE <<>>

RECURSIVE SumSeq(_)
SumSeq(s) == IF s = <<>> THEN 0 ELSE Head(s) + SumSeq(Tail(s))

EpisodeCount(shows) == SumSeq([k \in 1..Len(shows) |-> SumSeq(SeasonsOf(shows[k]))])

SliceShort(items, i) == SubSeq(items, i + 1, Min(i + BATCH_SIZE - 1, Len(items)))

\* items[i : i + BATCH_SIZE], i counted from 0
Slice(items, i) == SubSeq(items, i + 1, Min(i + BATCH_SIZE, Len(items)))

\* _sync_ratings: all_items, the (item_type, item) pairs, shows first
all_items(ratings_data) ==
    [k \in 1..Len(ratings_data.shows) |-> <<"shows", ratings_data.shows[k]>>]
    \o [k \in 1..Len(ratings_data.movies) |-> <<"movies", ratings_data.movies[k]>>]

OfType(batch, item_type) ==
    LET sel == SelectSeq(batch, LAMBDA p : p[1] = item_type)
    IN  [k \in 1..Len(sel) |-> sel[k][2]]

\* _sync_ratings: batch_data of the batch starting at offset i
ratings_batch(ratings_data, i) ==
    LET batch == Slice(all_items(ratings_data), i)
    IN  [shows |-> OfType(batch, "shows"), movies |-> OfType(batch, "movies")]

history_batch_of_both_kinds(history_data, item_type, i) ==
    [shows |-> Slice(history_data.shows, i), movies |-> Slice(history_data.movies, i)]

\* _sync_history: batch_data of the batch of item_type starting at offset i
history_batch(history_data, item_type, i) ==
    IF item_type = "shows"
    THEN [shows |-> Slice(history_data.shows, i), movies |-> <<>>]
    ELSE [shows |-> <<>>, movies |-> Slice(history_data.movies, i)]

total_batches(n) == (n + BATCH_SIZE - 1) \div BATCH_SIZE

batch_num(i) == (i \div BATCH_SIZE) + 1

(***************************************************************************)
(* _sync_batch: the backoff before the retry                               *)
(***************************************************************************)
BackoffLinear(cf) == Min(BACKOFF_BASE_SECONDS * (cf + 1), MAX_BACKOFF_SECONDS)

\* _sync_batch, lines 209-212
Backoff(cf) == Min(BACKOFF_BASE_SECONDS * (2 ^ cf), MAX_BACKOFF_SECONDS)

IsServerErrorAnyError(status_code) == status_code >= 400

\* _sync_batch: an API error of this status is retried
IsServerError(status_code) == status_code >= 500

BreakerTripsLate(cf) == cf > MAX_CONSECUTIVE_FAILURES

\* _sync_ratings / _sync_history: the circuit breaker
BreakerTrips(cf) == cf >= MAX_CONSECUTIVE_FAILURES

(***************************************************************************)
(* The remote side: what one iteration of the request loop of               *)
(* TraktClient._request meets.  kind "response" is an HTTP response with    *)
(* its status; HTTPError is a transport failure (httpx.HTTPError);          *)
(* ValueError is a body or header that does not parse (response.json(),     *)
(* int(Retry-After)); TraktAuthError is a failed token refresh in           *)
(* _access_token, raised while the headers are built.                       *)
(***************************************************************************)
Statuses == {200, 204, 404, 429, 503}

Outcomes ==
    [kind : {"response"}, status : Statuses]
    \cup [kind : {"HTTPError", "ValueError", "TraktAuthError"}, status : {0}]

\* int(response.headers.get("Retry-After", 60)): the header is read only
\* from a 429 response
RetryAfterOf(o) ==
    IF o.kind = "response" /\ o.status = 429 THEN RetryAfters ELSE {DEFAULT_RETRY_AFTER}

\* the parsed body of a response; none is TRUE for the None of _sync_batch
NoResponse ==
    [none |-> TRUE, added_shows |-> 0, added_movies |-> 0, added_episodes |-> 0,
     not_found_shows |-> 0, not_found_movies |-> 0]

\* 204 No Content: _request returns {}
EmptyResponse == [NoResponse EXCEPT !.none = FALSE]

\* 200: the remote reports every item of the payload as added
Response(type, data) ==
    IF type = "ratings"
    THEN [EmptyResponse EXCEPT !.added_shows = Len(data.shows),
                               !.added_movies = Len(data.movies)]
    ELSE [EmptyResponse EXCEPT !.added_episodes = EpisodeCount(data.shows),
                               !.added_movies = Len(data.movies)]

(***************************************************************************)
(* TraktClient._request: one iteration of the loop "for attempt in          *)
(* range(retries)" meeting outcome o.  The result says how the loop goes    *)
(* on: continue (after sleeping), return the body, raise TraktAPIError with *)
(* a status code, or let another exception through.                         *)
(***************************************************************************)
ClientResult(k, status_code, sleep, what) ==
    [k |-> k, status_code |-> status_code, sleep |-> sleep, what |-> what]

LoopExhaustedLate(att) == att >= retries

\* the for loop is exhausted after this iteration: "Max retries exceeded"
LoopExhausted(att) == att + 1 >= retries

\* response.status_code == 429
On429(att, retry_after) ==
    IF LoopExhausted(att)
    THEN ClientResult("api_error", 0, retry_after, "")
    ELSE ClientResult("continue", 0, retry_after, "")

\* except httpx.HTTPError
OnHTTPError(att) ==
    IF att < retries - 1
    THEN ClientResult("continue", 0, 2 ^ att, "")
    ELSE ClientResult("api_error", 0, 0, "")

request_iteration(o, att, retry_after) ==
    CASE o.kind = "TraktAuthError" -> ClientResult("exception", 0, 0, "TraktAuthError")
      [] o.kind = "ValueError" -> ClientResult("exception", 0, 0, "ValueError")
      [] o.kind = "HTTPError" -> OnHTTPError(att)
      [] o.status = 429 -> On429(att, retry_after)
      [] o.status >= 400 -> ClientResult("api_error", o.status, 0, "")
      [] OTHER -> ClientResult("return", o.status, 0, "")

(***************************************************************************)
(* State                                                                   *)
(***************************************************************************)
VARIABLES
    is_authenticated,      \* TraktClient.is_authenticated
    args,                  \* the arguments of sync
    pc,                    \* where the run is
    batch_type,            \* the chain being sent: ratings, history/shows, history/movies
    i,                     \* offset of the current batch in its list
    call,                  \* 1: first sync_func call of the batch, 2: the retry
    attempt,               \* loop variable of _request
    consecutive_failures,  \* local of _sync_ratings / _sync_history
    results,               \* the results summary
    failed_file,           \* failed_batches.json
    exc,                   \* the exception propagating out of sync, or "none"
    cur,                   \* history: what happened to the batch sent last
    flight,                \* history: the sync_func call in flight
    log,                   \* history: outcome of every finished batch, in order
    accepted,              \* history: batches the remote accepted
    resume,                \* cmd_sync: args.resume
    checkpoint_file,       \* the checkpoint file on disk
    checkpoint,            \* the checkpoint in memory (cmd_sync: the one loaded)
    loaded,                \* what load_checkpoint gave back for a saved checkpoint
    now,                   \* datetime.now() when save_checkpoint runs
    rc,                    \* the return code of cmd_sync, -1 while it runs
    anime_list,            \* the parsed and mapped entries given to the exporter
    trakt,                 \* TraktDataFetcher: the fetched _ratings and _watched
    resolutions,           \* what resolve_conflicts returned
    ratings_json,          \* what generate_ratings_json returned
    history_json,          \* what generate_history_json returned
    time,                  \* time.time(), in tenths of a second
    last_request_time,     \* TraktClient._last_request_time
    request,               \* the call of TraktClient._request that is running
    queries,               \* the queries TraktDataFetcher.fetch has issued
    posts                  \* history: the POST requests counted by the
                           \* specifications of the remote calls

sync_vars ==
    <<is_authenticated, args, pc, batch_type, i, call, attempt,
      consecutive_failures, results, failed_file, exc, cur, flight, log, accepted>>

sync_vars_but_pc ==
    <<is_authenticated, args, batch_type, i, call, attempt,
      consecutive_failures, results, failed_file, exc, cur, flight, log, accepted>>

cmd_vars == <<resume, checkpoint_file, checkpoint, loaded, now, rc>>

export_vars == <<anime_list, trakt, resolutions, ratings_json, history_json>>

client_vars_but_posts == <<time, last_request_time, request, queries>>

client_vars == <<client_vars_but_posts, posts>>

vars == <<sync_vars, cmd_vars, export_vars, client_vars>>

\* _init_results
init_results ==
    [history_added |-> 0, history_existing |-> 0,
     ratings_added |-> 0, ratings_existing |-> 0,
     errors |-> <<>>, failed_batches |-> <<>>, stopped_early |-> FALSE]

INTERRUPT_NOTE == [type |-> "Interrupted by user (Ctrl+C)", num |-> 0, unexpected |-> FALSE]

\* the error strings "<type> batch <n> failed" and "<type> batch <n> failed: <e>"
ErrorNote(type, num, unexpected) == [type |-> type, num |-> num, unexpected |-> unexpected]

\* history of a batch: the calls of sync_func made for it, the status code of
\* the TraktAPIError that ended the first call (-1: none), the backoff slept,
\* the exception that was not a TraktAPIError, whether a call ended in
\* "Max retries exceeded", the counter before and after it, the number of
\* failed batches before it, and how it ended
NoBatch ==
    [type |-> "", num |-> 0, data |-> Payload(0, 0),
     calls |-> 0, first_status |-> -1, backoff_slept |-> 0,
     exception |-> "", max_retries_exceeded |-> FALSE,
     cf_before |-> 0, cf_after |-> 0, failed_before |-> 0, result |-> "none"]

\* history of the sync_func call in flight: HTTP requests issued, 429
\* responses received, the last sleep inside _request and its reason
NoFlight == [https |-> 0, n429 |-> 0, last_sleep |-> 0, last_sleep_why |-> ""]

\* history of the POST requests: sync counts the requests of _request to
\* /sync/history and /sync/ratings, oauth the requests of _refresh_token to
\* /oauth/token
NoPosts == [sync |-> 0, oauth |-> 0]

(***************************************************************************)
(* Helpers of the batch loops                                              *)
(***************************************************************************)
\* the list the current chain iterates over
ChainItems(bt) ==
    CASE bt = "ratings" -> all_items(args.ratings_data)
      [] bt = "history/shows" -> args.history_data.shows
      [] OTHER -> args.history_data.movies

\* batch_data of the batch of chain bt at offset idx
BatchData(bt, idx) ==
    CASE bt = "ratings" -> ratings_batch(args.ratings_data, idx)
      [] bt = "history/shows" -> history_batch(args.history_data, "shows", idx)
      [] OTHER -> history_batch(args.history_data, "movies", idx)

\* batch_data handed to _sync_batch
CurrentData == BatchData(batch_type, i)

Point(p, bt, idx) == [pc |-> p, batch_type |-> bt, i |-> idx]

AdvanceWithoutMovies(bt, idx) ==
    IF idx + BATCH_SIZE < Len(ChainItems(bt))
    THEN Point("request", bt, idx + BATCH_SIZE)
    ELSE IF bt = "ratings"
    THEN Point("history", bt, 0)
    ELSE Point("save", bt, 0)

\* where the loops go after the batch at offset idx of chain bt
Advance(bt, idx) ==
    IF idx + BATCH_SIZE < Len(ChainItems(bt))
    THEN Point("request", bt, idx + BATCH_SIZE)
    ELSE IF bt = "ratings"
    THEN Point("history", bt, 0)
    ELSE IF bt = "history/shows" /\ Len(args.history_data.movies) > 0
    THEN Point("request", "history/movies", 0)
    ELSE Point("save", bt, 0)

\* the "return" of the circuit breaker
AfterStop(bt) == IF bt = "ratings" THEN Point("history", bt, 0) ELSE Point("save", bt, 0)

\* the else branch after _sync_batch: the counts of the response are added
Accumulate(bt, res, response) ==
    IF bt = "ratings"
    THEN [res EXCEPT
            !.ratings_added = @ + response.added_shows + response.added_movies,
            !.ratings_existing = @ + response.not_found_shows + response.not_found_movies]
    ELSE [res EXCEPT
            !.history_added = @ + response.added_episodes + response.added_movies,
            !.history_existing = @ + response.not_found_shows + response.not_found_movies]

\* _sync_batch: the batch is recorded as failed
RecordFailed(res, bt, num, data, unexpected) ==
    [res EXCEPT
       !.failed_batches = Append(@, [type |-> bt, data |-> data]),
       !.errors = Append(@, ErrorNote(bt, num, unexpected))]

NextFailuresNeverReset(cf, failed) == IF failed THEN cf + 1 ELSE cf

\* the consecutive-failure counter after a batch
NextFailures(cf, failed) == IF failed THEN cf + 1 ELSE 0

\* _sync_batch, except Exception: a non-API exception of the first call is
\* caught; one raised by the retry, inside the TraktAPIError handler, is not
CaughtByExceptException(c) == c = 1

RetriedOnNetworkFailure(c, status_code) ==
    c = 1 /\ (IsServerError(status_code) \/ status_code = 0)

RetriedAgain(c, status_code) == IsServerError(status_code)

\* _sync_batch, except TraktAPIError: the failed first call is retried
Retried(c, status_code) == c = 1 /\ IsServerError(status_code)

HistoryRunsRegardless(a, res) == a.sync_history /\ Truthy(a.history_data)

\* sync, line 73: the history phase runs
HistoryRuns(a, res) == a.sync_history /\ Truthy(a.history_data) /\ ~res.stopped_early

\* sync, line 67: the ratings phase runs
RatingsRuns(a) == a.sync_ratings /\ Truthy(a.ratings_data)

\* _dry_run_ratings: the ratings that would be synced
dry_run_ratings(ratings_data, res) ==
    [res EXCEPT !.ratings_added = Len(ratings_data.shows) + Len(ratings_data.movies)]

dry_run_history_items(history_data, res) ==
    [res EXCEPT !.history_added = Len(history_data.shows) + Len(history_data.movies)]

\* _dry_run_history: the episodes of all seasons of all shows, and the movies
dry_run_history(history_data, res) ==
    [res EXCEPT !.history_added =
        EpisodeCount(history_data.shows) + Len(history_data.movies)]

SaveWritesAlways(res, output_dir) == res.failed_batches # <<>>

\* _save_failed_batches: the file is written
SaveWrites(res, output_dir) == res.failed_batches # <<>> /\ output_dir

(***************************************************************************)
(* History of the batch in flight                                          *)
(***************************************************************************)
StartBatch ==
    [NoBatch EXCEPT !.type = batch_type, !.num = batch_num(i), !.data = CurrentData,
                    !.cf_before = consecutive_failures,
                    !.failed_before = Len(results.failed_batches),
                    !.result = "pending"]

Observe(g, o, r) ==
    [g EXCEPT !.calls = @ + (IF attempt = 0 THEN 1 ELSE 0),
              !.first_status = IF call = 1 /\ r.k = "api_error" THEN r.status_code ELSE @,
              !.exception = IF r.k = "exception" THEN r.what ELSE @,
              !.max_retries_exceeded =
                  r.k = "api_error" /\ o.kind = "response" /\ o.status = 429]

ObserveFlight(f, o, r) ==
    [f EXCEPT !.https = @ + (IF o.kind = "TraktAuthError" THEN 0 ELSE 1),
              !.n429 = @ + (IF o.kind = "response" /\ o.status = 429 THEN 1 ELSE 0),
              !.last_sleep = IF r.sleep > 0 THEN r.sleep ELSE @,
              !.last_sleep_why =
                  IF r.sleep > 0 THEN (IF o.kind = "HTTPError" THEN "HTTPError" ELSE "429")
                  ELSE @]

(***************************************************************************)
(* Checkpoints (models.SyncCheckpoint) and the checkpoint file.  A datetime  *)
(* is a second t and a microsecond within it; none is TRUE for None.  An    *)
(* ISO string as datetime_to_iso writes it holds the second and the         *)
(* literal fraction "000".                                                 *)
(***************************************************************************)
\* AniDB ids listed in a checkpoint
MaxId == 2
\* a positive last_processed_index
MaxIndex == 10
\* the seconds and the microseconds a timestamp is drawn from
MaxTime == 1
MaxMicrosecond == 1

NoDatetime == [none |-> TRUE, t |-> 0, microsecond |-> 0]

Datetime(t, us) == [none |-> FALSE, t |-> t, microsecond |-> us]

Datetimes == {Datetime(t, us) : t \in 0..MaxTime, us \in {0, MaxMicrosecond}}

\* the clock is past every timestamp of a checkpoint
Clock == {Datetime(MaxTime + 1, us) : us \in {0, MaxMicrosecond}}

NoIso == [none |-> TRUE, seconds |-> 0, millis |-> 0]

\* datetime_to_iso: strftime("%Y-%m-%dT%H:%M:%S.000Z")
datetime_to_iso(dt) ==
    IF dt.none THEN NoIso ELSE [none |-> FALSE, seconds |-> dt.t, millis |-> 0]

\* iso_to_datetime: the zone suffix is dropped, the rest is read by
\* datetime.fromisoformat
iso_to_datetime(iso_str) ==
    IF iso_str.none THEN NoDatetime ELSE Datetime(iso_str.seconds, iso_str.millis * 1000)

IdLists ==
    {<<>>} \cup {<<a>> : a \in 1..MaxId} \cup {<<a, b>> : a, b \in 1..MaxId}

ErrorLists == {<<>>, <<[error |-> "test"]>>}

SyncCheckpoint(last_processed_index, synced_ratings, synced_history, errors, timestamp) ==
    [none |-> FALSE,
     last_processed_index |-> last_processed_index,
     synced_ratings |-> synced_ratings, synced_history |-> synced_history,
     errors |-> errors, timestamp |-> timestamp]

\* None where a checkpoint is expected
NoCheckpoint == [SyncCheckpoint(0, <<>>, <<>>, <<>>, NoDatetime) EXCEPT !.none = TRUE]

Checkpoints ==
    {SyncCheckpoint(idx, r, h, e, ts) :
        idx \in {0, MaxIndex}, r \in IdLists, h \in IdLists, e \in ErrorLists,
        ts \in Datetimes \cup {NoDatetime}}

\* the JSON object save_checkpoint writes
CheckpointData(c, timestamp) ==
    [last_processed_index |-> c.last_processed_index,
     synced_ratings |-> c.synced_ratings, synced_history |-> c.synced_history,
     errors |-> c.errors, timestamp |-> timestamp]

\* the checkpoint file: missing; unreadable (open raises OSError);
\* undecodable (bytes that are no text in the file encoding); invalid_json
\* (text that is no JSON); not_object (JSON that is no object); object.
\* written: save_checkpoint wrote it
File(kind) ==
    [kind |-> kind, written |-> FALSE, data |-> CheckpointData(NoCheckpoint, NoIso)]

BrokenFiles ==
    {File(k) : k \in {"missing", "unreadable", "undecodable", "invalid_json", "not_object"}}

save_checkpoint_timestamp_as_is(c, clock) ==
    [kind |-> "object", written |-> TRUE,
     data |-> CheckpointData(c, datetime_to_iso(c.timestamp))]

\* save_checkpoint: the file after the call
save_checkpoint(c, clock) ==
    [kind |-> "object", written |-> TRUE,
     data |-> CheckpointData(c, datetime_to_iso(IF c.timestamp.none THEN clock
                                                ELSE c.timestamp))]

LoadResult(raised, value) == [raised |-> raised, value |-> value]

\* load_checkpoint: the checkpoint returned (NoCheckpoint for None), or the
\* exception raised.  JSONDecodeError and OSError are caught; the
\* UnicodeDecodeError of f.read() and the AttributeError of data.get on a
\* JSON value that is no object are not
load_checkpoint(file) ==
    CASE file.kind \in {"missing", "unreadable", "invalid_json"} ->
             LoadResult("none", NoCheckpoint)
      [] file.kind = "undecodable" -> LoadResult("UnicodeDecodeError", NoCheckpoint)
      [] file.kind = "not_object" -> LoadResult("AttributeError", NoCheckpoint)
      [] OTHER ->
             LoadResult("none",
                        SyncCheckpoint(file.data.last_processed_index,
                                       file.data.synced_ratings, file.data.synced_history,
                                       file.data.errors,
                                       iso_to_datetime(file.data.timestamp)))

\* no command line and no checkpoint are involved in a call of sync
NoCommand ==
    /\ resume = FALSE
    /\ checkpoint_file = File("missing")
    /\ checkpoint = NoCheckpoint
    /\ loaded = LoadResult("none", NoCheckpoint)
    /\ now = NoDatetime
    /\ rc = -1

(***************************************************************************)
(* Entries, the fetched remote state and conflict resolution               *)
(* (src/src/models.py, src/src/id_mapper.py, src/src/trakt_data.py).  An    *)
(* identifier that is None is 0; identifiers are positive.  A date is a     *)
(* Datetime whose second is the day written yyyymmdd.                       *)
(***************************************************************************)
\* MappedIds; none is TRUE for an entry without mapped_ids
MappedIds(tvdb_id, imdb_id, tmdb_show_id, tmdb_movie_id, tvdb_season, tvdb_epoffset) ==
    [none |-> FALSE, tvdb_id |-> tvdb_id, imdb_id |-> imdb_id,
     tmdb_show_id |-> tmdb_show_id, tmdb_movie_id |-> tmdb_movie_id,
     tvdb_season |-> tvdb_season, tvdb_epoffset |-> tvdb_epoffset]

NoMappedIds == [MappedIds(0, 0, 0, 0, 1, 0) EXCEPT !.none = TRUE]

\* MappedIds.has_any_id
has_any_id(ids) ==
    ids.tvdb_id # 0 \/ ids.imdb_id # 0 \/ ids.tmdb_show_id # 0 \/ ids.tmdb_movie_id # 0

\* MappedIds.is_movie
is_movie(ids) == ids.tmdb_movie_id # 0 /\ ids.tvdb_id = 0

\* MappedIds.get_trakt_ids: the keys tvdb, imdb, tmdb; 0 for a key not set
get_trakt_ids(ids) ==
    [tvdb |-> ids.tvdb_id,
     imdb |-> ids.imdb_id,
     tmdb |-> IF ids.tvdb_id # 0 THEN 0
              ELSE IF ids.tmdb_movie_id # 0 THEN ids.tmdb_movie_id
              ELSE ids.tmdb_show_id]

\* AnimeRating; none is TRUE for an entry without rating
AnimeRating(score, rated_at) == [none |-> FALSE, score |-> score, rated_at |-> rated_at]

NoRating == [AnimeRating(0, NoDatetime) EXCEPT !.none = TRUE]

WatchedEpisode(episode_number, episode_type, watched_at) ==
    [episode_number |-> episode_number, episode_type |-> episode_type,
     watched_at |-> watched_at]

\* WatchedEpisode.is_special
is_special(ep) == ep.episode_type # "REGULAR"

AnimeEntry(mapped_ids, rating, watched_episodes) ==
    [mapped_ids |-> mapped_ids, rating |-> rating, watched_episodes |-> watched_episodes]

is_mapped_ignoring_ids(anime) == ~anime.mapped_ids.none

\* AnimeEntry.is_mapped
is_mapped(anime) == ~anime.mapped_ids.none /\ has_any_id(anime.mapped_ids)

map_episode_to_trakt_specials_in_season(episode, mapped_ids) ==
    IF is_special(episode)
    THEN <<mapped_ids.tvdb_season, episode.episode_number>>
    ELSE <<mapped_ids.tvdb_season, episode.episode_number + mapped_ids.tvdb_epoffset>>

map_episode_to_trakt_untranslated(episode, mapped_ids) ==
    <<mapped_ids.tvdb_season, episode.episode_number>>

\* IDMapper.map_episode_to_trakt: the (season, episode) pair on the remote
map_episode_to_trakt(episode, mapped_ids) ==
    IF is_special(episode)
    THEN <<0, episode.episode_number>>
    ELSE <<mapped_ids.tvdb_season, episode.episode_number + mapped_ids.tvdb_epoffset>>

\* datetime < datetime
Earlier(a, b) == a.t < b.t \/ (a.t = b.t /\ a.microsecond < b.microsecond)

\* TraktDataFetcher: the keys show_<tvdb_id> and movie_<tmdb_movie_id>
Keys == {"show", "movie"} \X (1..MaxId)

\* a value of _ratings, and None for a key it does not hold.  The two maps
\* are filled by different queries: the trakt_id and the title they hold for
\* a key are given different values, so that the map a remote entry took
\* them from is seen
RemoteRating(rating, rated_at) ==
    [none |-> FALSE, rating |-> rating, rated_at |-> rated_at,
     trakt_id |-> 1, title |-> "title in _ratings"]

NoRemoteRating == [RemoteRating(0, NoDatetime) EXCEPT !.none = TRUE]

\* a season of a value of _watched: its number and the numbers of its
\* episodes
Season(number, episodes) == [number |-> number, episodes |-> episodes]

\* a value of _watched, and None for a key it does not hold
RemoteWatched(seasons) ==
    [none |-> FALSE, seasons |-> seasons,
     trakt_id |-> 2, title |-> "title in _watched"]

NoRemoteWatched == [RemoteWatched(<<>>) EXCEPT !.none = TRUE]

\* TraktEntry; none is TRUE where get_entry returns None.  rating 0 is None
TraktEntry(trakt_id, title, rating, rated_at, watched_episodes, movie) ==
    [none |-> FALSE, trakt_id |-> trakt_id, title |-> title,
     rating |-> rating, rated_at |-> rated_at,
     watched_episodes |-> watched_episodes, is_movie |-> movie]

NoTraktEntry == [TraktEntry(0, "", 0, NoDatetime, <<>>, FALSE) EXCEPT !.none = TRUE]

KeyOf_movie_id_first(ids) ==
    IF ids.tmdb_movie_id # 0 THEN <<"movie", ids.tmdb_movie_id>>
    ELSE IF ids.tvdb_id # 0 THEN <<"show", ids.tvdb_id>>
    ELSE <<"", 0>>

\* get_entry: the key of an entry, <<"", 0>> when none can be derived
KeyOf(ids) ==
    IF is_movie(ids) /\ ids.tmdb_movie_id # 0 THEN <<"movie", ids.tmdb_movie_id>>
    ELSE IF ids.tvdb_id # 0 THEN <<"show", ids.tvdb_id>>
    ELSE <<"", 0>>

\* get_entry, lines 119-128: the (season, episode) pairs of the seasons, in
\* the order of the seasons and of their episodes
RECURSIVE watched_episodes_of(_)
watched_episodes_of(seasons) ==
    IF seasons = <<>> THEN <<>>
    ELSE [k \in 1..Len(Head(seasons).episodes) |->
             <<Head(seasons).number, Head(seasons).episodes[k]>>]
         \o watched_episodes_of(Tail(seasons))

get_entry_data_of_watched(fetched, anime) ==
    LET ids == anime.mapped_ids
        key == KeyOf(ids)
    IN  IF ids.none \/ key \notin Keys THEN NoTraktEntry
        ELSE LET rating_data == fetched.ratings[key]
                 watched_data == fetched.watched[key]
                 data == IF ~watched_data.none THEN watched_data ELSE rating_data
             IN  IF rating_data.none /\ watched_data.none THEN NoTraktEntry
                 ELSE TraktEntry(data.trakt_id, data.title,
                                 rating_data.rating, rating_data.rated_at,
                                 watched_episodes_of(watched_data.seasons),
                                 is_movie(ids))

\* TraktDataFetcher.get_entry
get_entry(fetched, anime) ==
    LET ids == anime.mapped_ids
        key == KeyOf(ids)
    IN  IF ids.none \/ key \notin Keys THEN NoTraktEntry
        ELSE LET rating_data == fetched.ratings[key]
                 watched_data == fetched.watched[key]
                 data == IF ~rating_data.none THEN rating_data ELSE watched_data
             IN  IF rating_data.none /\ watched_data.none THEN NoTraktEntry
                 ELSE TraktEntry(data.trakt_id, data.title,
                                 rating_data.rating, rating_data.rated_at,
                                 watched_episodes_of(watched_data.seasons),
                                 is_movie(ids))

older_rating_wins_or_equal(anidb_date, trakt_date) ==
    IF ~anidb_date.none /\ ~trakt_date.none
    THEN ~Earlier(trakt_date, anidb_date)
    ELSE ~anidb_date.none

older_rating_wins_reversed(anidb_date, trakt_date) ==
    IF ~anidb_date.none /\ ~trakt_date.none
    THEN Earlier(trakt_date, anidb_date)
    ELSE ~anidb_date.none

\* ConflictResolver._older_rating_wins
older_rating_wins(anidb_date, trakt_date) ==
    IF ~anidb_date.none /\ ~trakt_date.none
    THEN Earlier(anidb_date, trakt_date)
    ELSE ~anidb_date.none

\* ConflictResolution with the defaults of the dataclass; anidb_id is the
\* position of the entry in the list
ConflictResolution(anidb_id, anime, trakt_entry) ==
    [anidb_id |-> anidb_id, anime |-> anime, trakt_entry |-> trakt_entry,
     keep_anidb_rating |-> TRUE, rating_conflict |-> FALSE, episodes_to_sync |-> <<>>]

\* _resolve_single, lines 190-199: the episodes not yet on the remote
EpisodesToSync(anime, trakt_entry) ==
    LET existing_eps ==
            {<<trakt_entry.watched_episodes[k][1], trakt_entry.watched_episodes[k][2]>> :
                k \in 1..Len(trakt_entry.watched_episodes)}
    IN  SelectSeq(anime.watched_episodes,
                  LAMBDA ep : map_episode_to_trakt(ep, anime.mapped_ids) \notin existing_eps)

resolve_single_by_date_always(anidb_id, anime, trakt_entry) ==
    LET both == ~anime.rating.none /\ ~trakt_entry.none /\ trakt_entry.rating # 0
    IN  [ConflictResolution(anidb_id, anime, trakt_entry) EXCEPT
            !.rating_conflict = both /\ anime.rating.score # trakt_entry.rating,
            !.keep_anidb_rating =
                IF both
                THEN older_rating_wins(anime.rating.rated_at, trakt_entry.rated_at)
                ELSE TRUE,
            !.episodes_to_sync = EpisodesToSync(anime, trakt_entry)]

\* ConflictResolver._resolve_single
resolve_single(anidb_id, anime, trakt_entry) ==
    LET both == ~anime.rating.none /\ ~trakt_entry.none /\ trakt_entry.rating # 0
        conflict == both /\ anime.rating.score # trakt_entry.rating
    IN  [ConflictResolution(anidb_id, anime, trakt_entry) EXCEPT
            !.rating_conflict = conflict,
            !.keep_anidb_rating =
                IF conflict
                THEN older_rating_wins(anime.rating.rated_at, trakt_entry.rated_at)
                ELSE TRUE,
            !.episodes_to_sync = EpisodesToSync(anime, trakt_entry)]

\* ConflictResolver.resolve: the loop over the entries, from entry k on
RECURSIVE resolve_from(_, _, _)
resolve_from(list, fetched, k) ==
    IF k > Len(list) THEN <<>>
    ELSE (IF is_mapped(list[k])
          THEN <<resolve_single(k, list[k], get_entry(fetched, list[k]))>>
          ELSE <<>>)
         \o resolve_from(list, fetched, k + 1)

resolve_appending(list, fetched) == resolutions \o resolve_from(list, fetched, 1)

\* ConflictResolver.resolve: the list returned starts empty at every call
resolve(list, fetched) == resolve_from(list, fetched, 1)

(***************************************************************************)
(* TraktExporter: the payloads generated from the entries                   *)
(* (src/src/trakt_exporter.py).  anidb_id, the entry an item was generated  *)
(* from, is history: the payload sent does not hold it.                     *)
(***************************************************************************)
Indices(list) == [k \in 1..Len(list) |-> k]

KeepsTrakt_on_any_conflict(anidb_id, res) ==
    \E j \in 1..Len(res) : res[j].anidb_id = anidb_id /\ res[j].rating_conflict

\* generate_ratings_json, lines 129-132: the resolution of the entry says
\* that the remote rating is kept
KeepsTrakt(anidb_id, res) ==
    \E j \in 1..Len(res) :
        /\ res[j].anidb_id = anidb_id
        /\ ~res[j].keep_anidb_rating /\ res[j].rating_conflict

\* generate_ratings_json, lines 134-140: the item of an entry
RatingItem(anidb_id, anime) ==
    [anidb_id |-> anidb_id, ids |-> get_trakt_ids(anime.mapped_ids),
     rating |-> anime.rating.score, rated_at |-> datetime_to_iso(anime.rating.rated_at)]

\* TraktExporter.generate_ratings_json
generate_ratings_json(list, res) ==
    LET rated == SelectSeq(Indices(list), LAMBDA k :
                     is_mapped(list[k]) /\ ~list[k].rating.none /\ ~KeepsTrakt(k, res))
        shows == SelectSeq(rated, LAMBDA k : ~is_movie(list[k].mapped_ids))
        movies == SelectSeq(rated, LAMBDA k : is_movie(list[k].mapped_ids))
    IN  [shows |-> [j \in 1..Len(shows) |-> RatingItem(shows[j], list[shows[j]])],
         movies |-> [j \in 1..Len(movies) |-> RatingItem(movies[j], list[movies[j]])]]

\* sorted(...): the numbers of a set in ascending order
RECURSIVE Sorted(_)
Sorted(S) ==
    IF S = {} THEN <<>>
    ELSE LET m == CHOOSE x \in S : \A y \in S : x <= y
         IN  <<m>> \o Sorted(S \ {m})

\* min(dates) of the watch dates that are set, None when there is none
MinWatchedAt(episodes) ==
    LET dates == {episodes[k].watched_at : k \in 1..Len(episodes)} \ {NoDatetime}
    IN  IF dates = {} THEN NoDatetime
        ELSE CHOOSE d \in dates : \A e \in dates : ~Earlier(e, d)

\* TraktExporter._build_movie_history
build_movie_history(anidb_id, anime) ==
    [anidb_id |-> anidb_id, ids |-> get_trakt_ids(anime.mapped_ids),
     watched_at |-> datetime_to_iso(MinWatchedAt(anime.watched_episodes))]

\* TraktExporter._build_show_history: the episodes grouped by remote season
build_show_history(anidb_id, anime) ==
    LET ids == anime.mapped_ids
        eps == anime.watched_episodes
        numbers == Sorted({map_episode_to_trakt(eps[k], ids)[1] : k \in 1..Len(eps)})
        season(num) ==
            LET of == SelectSeq(eps, LAMBDA ep : map_episode_to_trakt(ep, ids)[1] = num)
            IN  [number |-> num,
                 episodes |-> [k \in 1..Len(of) |->
                                 [number |-> map_episode_to_trakt(of[k], ids)[2],
                                  watched_at |-> datetime_to_iso(of[k].watched_at)]]]
    IN  [anidb_id |-> anidb_id, ids |-> get_trakt_ids(ids),
         seasons |-> [k \in 1..Len(numbers) |-> season(numbers[k])]]

\* TraktExporter.generate_history_json
generate_history_json(list) ==
    LET watched == SelectSeq(Indices(list), LAMBDA k :
                       is_mapped(list[k]) /\ list[k].watched_episodes # <<>>)
        shows == SelectSeq(watched, LAMBDA k : ~is_movie(list[k].mapped_ids))
        movies == SelectSeq(watched, LAMBDA k : is_movie(list[k].mapped_ids))
    IN  [shows |-> [j \in 1..Len(shows) |-> build_show_history(shows[j], list[shows[j]])],
         movies |-> [j \in 1..Len(movies) |->
                        build_movie_history(movies[j], list[movies[j]])]]

\* nothing was fetched
NothingFetched ==
    [ratings |-> [k \in Keys |-> NoRemoteRating], watched |-> [k \in Keys |-> NoRemoteWatched]]

\* no exporter is involved
NoExport ==
    /\ anime_list = <<>>
    /\ trakt = NothingFetched
    /\ resolutions = <<>>
    /\ ratings_json = Payload(0, 0)
    /\ history_json = Payload(0, 0)

(***************************************************************************)
(* TraktClient: the rate limit of _request (src/src/trakt_client.py).  Time *)
(* is counted in tenths of a second.                                        *)
(***************************************************************************)
\* 1 call per second for POST/PUT/DELETE
POST_RATE_LIMIT == 10
\* 0.3 seconds between calls for GET
GET_RATE_LIMIT == 3

\* is_post = method.upper() in ("POST", "PUT", "DELETE")
is_post(method) == method \in {"POST", "PUT", "DELETE"}

limit_of_reads(post) == GET_RATE_LIMIT

\* _rate_limit: limit = POST_RATE_LIMIT if is_post else GET_RATE_LIMIT
limit(post) == IF post THEN POST_RATE_LIMIT ELSE GET_RATE_LIMIT

\* _rate_limit: the time slept, time.sleep(limit - elapsed) if elapsed < limit
rate_limit_sleep(post, now_time, last) ==
    LET elapsed == now_time - last
    IN  IF elapsed < limit(post) THEN limit(post) - elapsed ELSE 0

\* a call of _request: the attempt of range(retries) that is running, the
\* status of its response (0: none yet, -1: httpx.HTTPError) and how the
\* call ended.  History: previous is _last_request_time as the attempt
\* found it, issued_at the time at which the attempt called
\* client.request, -1 before it did
RequestCall(method) ==
    [method |-> method, attempt |-> 0, previous |-> 0, issued_at |-> -1,
     response |-> 0, result |-> "running"]

\* no call of _request is running
NoRequest == RequestCall("")

\* no client is involved
NoClient ==
    /\ time = 0
    /\ last_request_time = 0
    /\ request = NoRequest
    /\ queries = <<>>
    /\ posts = NoPosts

(***************************************************************************)
(* Initial state: sync is about to be called                               *)
(***************************************************************************)
\* the inputs: the total number of batches of a run is bounded
MaxBatches == 5

InputBatches(a) ==
    total_batches(Len(all_items(a.ratings_data)))
    + total_batches(Len(a.history_data.shows))
    + total_batches(Len(a.history_data.movies))

Args ==
    {a \in [ratings_data : Payloads, history_data : Payloads,
            sync_ratings : BOOLEAN, sync_history : BOOLEAN,
            dry_run : BOOLEAN, output_dir : BOOLEAN] :
        InputBatches(a) <= MaxBatches}

\* the locals of a run of sync that has not begun
SyncNotBegun ==
    /\ batch_type = ""
    /\ i = 0
    /\ call = 1
    /\ attempt = 0
    /\ consecutive_failures = 0
    /\ results = init_results
    /\ failed_file = [written |-> FALSE, content |-> <<>>]
    /\ exc = "none"
    /\ cur = NoBatch
    /\ flight = NoFlight
    /\ log = <<>>
    /\ accepted = {}

Init ==
    /\ is_authenticated \in BOOLEAN
    /\ args \in Args
    /\ pc = "entry"
    /\ SyncNotBegun
    /\ NoCommand
    /\ NoExport
    /\ NoClient

(***************************************************************************)
(* sync, lines 61-64: the authentication check                             *)
(***************************************************************************)
SyncEntry ==
    /\ pc = "entry"
    /\ IF ~is_authenticated
       THEN pc' = "done" /\ exc' = "RuntimeError"
       ELSE pc' = "ratings" /\ exc' = exc
    /\ results' = init_results
    /\ UNCHANGED <<client_vars, export_vars, cmd_vars, is_authenticated, args,
                   batch_type, i, call, attempt, consecutive_failures,
                   failed_file, cur, flight, log, accepted>>

RatingsPhaseNeverDry ==
    /\ pc = "ratings"
    /\ IF RatingsRuns(args)
       THEN /\ results' = results
            /\ consecutive_failures' = 0
            /\ batch_type' = "ratings"
            /\ pc' = IF all_items(args.ratings_data) = <<>> THEN "history" ELSE "request"
       ELSE /\ pc' = "history"
            /\ UNCHANGED <<results, batch_type, consecutive_failures>>
    /\ i' = 0 /\ call' = 1 /\ attempt' = 0
    /\ UNCHANGED <<client_vars, export_vars, cmd_vars, is_authenticated, args,
                   failed_file, exc, cur, flight, log, accepted>>

(***************************************************************************)
(* sync, lines 67-71: the ratings phase begins (_dry_run_ratings, or the    *)
(* head of _sync_ratings)                                                  *)
(***************************************************************************)
RatingsPhase ==
    /\ pc = "ratings"
    /\ IF RatingsRuns(args)
       THEN IF args.dry_run
            THEN /\ results' = dry_run_ratings(args.ratings_data, results)
                 /\ pc' = "history"
                 /\ UNCHANGED <<batch_type, consecutive_failures>>
            ELSE /\ results' = results
                 /\ consecutive_failures' = 0
                 /\ batch_type' = "ratings"
                 /\ pc' = IF all_items(args.ratings_data) = <<>> THEN "history" ELSE "request"
       ELSE /\ pc' = "history"
            /\ UNCHANGED <<results, batch_type, consecutive_failures>>
    /\ i' = 0 /\ call' = 1 /\ attempt' = 0
    /\ UNCHANGED <<client_vars, export_vars, cmd_vars, is_authenticated, args,
                   failed_file, exc, cur, flight, log, accepted>>

HistoryPhaseKeepingCounter ==
    /\ pc = "history"
    /\ IF HistoryRuns(args, results)
       THEN IF args.dry_run
            THEN /\ results' = dry_run_history(args.history_data, results)
                 /\ pc' = "save"
                 /\ UNCHANGED batch_type
            ELSE /\ results' = results
                 /\ batch_type' = IF args.history_data.shows # <<>>
                                  THEN "history/shows" ELSE "history/movies"
                 /\ pc' = "request"
       ELSE /\ pc' = "save"
            /\ UNCHANGED <<results, batch_type>>
    /\ i' = 0 /\ call' = 1 /\ attempt' = 0
    /\ UNCHANGED <<client_vars, export_vars, cmd_vars, is_authenticated, args,
                   consecutive_failures, failed_file, exc, cur, flight, log, accepted>>

(***************************************************************************)
(* sync, lines 73-77: the history phase begins (_dry_run_history, or the    *)
(* head of _sync_history)                                                  *)
(***************************************************************************)
HistoryPhase ==
    /\ pc = "history"
    /\ IF HistoryRuns(args, results)
       THEN IF args.dry_run
            THEN /\ results' = dry_run_history(args.history_data, results)
                 /\ pc' = "save"
                 /\ UNCHANGED <<batch_type, consecutive_failures>>
            ELSE /\ results' = results
                 /\ consecutive_failures' = 0
                 /\ batch_type' = IF args.history_data.shows # <<>>
                                  THEN "history/shows" ELSE "history/movies"
                 /\ pc' = "request"
       ELSE /\ pc' = "save"
            /\ UNCHANGED <<results, batch_type, consecutive_failures>>
    /\ i' = 0 /\ call' = 1 /\ attempt' = 0
    /\ UNCHANGED <<client_vars, export_vars, cmd_vars, is_authenticated, args,
                   failed_file, exc, cur, flight, log, accepted>>

(***************************************************************************)
(* The ways one iteration of the request loop ends                         *)
(***************************************************************************)
\* _request goes round its loop
Continue(g, f) ==
    /\ attempt' = attempt + 1
    /\ cur' = g
    /\ flight' = f
    /\ UNCHANGED <<client_vars_but_posts, export_vars, cmd_vars, is_authenticated, args,
                   pc, batch_type, i, call, consecutive_failures, results,
                   failed_file, exc, log, accepted>>

\* _sync_batch, lines 208-217: a server error of the first call; the backoff
\* sleep begins
ToBackoff(g) ==
    /\ pc' = "backoff"
    /\ cur' = g
    /\ flight' = NoFlight
    /\ UNCHANGED <<client_vars_but_posts, export_vars, cmd_vars, is_authenticated, args,
                   batch_type, i, call, attempt, consecutive_failures, results,
                   failed_file, exc, log, accepted>>

\* _sync_batch returns response (NoResponse for None, res being the results
\* after the failure was recorded); the loop body of _sync_ratings or
\* _sync_history handles it and goes to the next batch
Completed(g, res, response) ==
    LET failed == response.none
        cf == NextFailures(consecutive_failures, failed)
        trip == failed /\ BreakerTrips(cf)
        nxt == IF trip THEN AfterStop(batch_type) ELSE Advance(batch_type, i)
    IN  /\ consecutive_failures' = cf
        /\ results' = IF failed
                      THEN [res EXCEPT !.stopped_early = @ \/ trip]
                      ELSE Accumulate(batch_type, res, response)
        /\ pc' = nxt.pc
        /\ batch_type' = nxt.batch_type
        /\ i' = nxt.i
        /\ call' = 1
        /\ attempt' = 0
        /\ cur' = [g EXCEPT !.result = IF failed THEN "failed" ELSE "ok",
                            !.cf_after = cf]
        /\ flight' = NoFlight
        /\ log' = Append(log, [type |-> g.type, num |-> g.num, ok |-> ~failed,
                               retried |-> failed /\ g.calls > 1])
        /\ accepted' = IF failed THEN accepted ELSE accepted \cup {<<g.type, g.num>>}
        /\ UNCHANGED <<client_vars_but_posts, export_vars, cmd_vars, is_authenticated,
                       args, failed_file, exc>>

\* sync, finally: _save_failed_batches
SavedFile(res) ==
    IF SaveWrites(res, args.output_dir)
    THEN [written |-> TRUE, content |-> res.failed_batches]
    ELSE failed_file

\* an exception leaves _sync_batch and the loops; sync's finally clause runs
\* and the exception leaves sync
Propagate(g, what) ==
    /\ exc' = what
    /\ pc' = "done"
    /\ failed_file' = SavedFile(results)
    /\ cur' = [g EXCEPT !.result = "raised"]
    /\ flight' = NoFlight
    /\ UNCHANGED <<client_vars_but_posts, export_vars, cmd_vars, is_authenticated, args,
                   batch_type, i, call, attempt, consecutive_failures, results,
                   log, accepted>>

(***************************************************************************)
(* _sync_batch calling sync_func = TraktClient._request("POST", ...): one   *)
(* iteration of the request loop with outcome o, and everything that        *)
(* follows it up to the next request or sleep                              *)
(***************************************************************************)
sync_func(o, retry_after) ==
    /\ pc = "request"
    /\ LET g0 == IF call = 1 /\ attempt = 0 THEN StartBatch ELSE cur
           r == request_iteration(o, attempt, retry_after)
           g == Observe(g0, o, r)
           f == ObserveFlight(flight, o, r)
       IN  CASE r.k = "continue" -> Continue(g, f)
             [] r.k = "return" ->
                  Completed(g, results,
                            IF o.status = 204 THEN EmptyResponse
                            ELSE Response(g.type, g.data))
             [] r.k = "api_error" ->
                  IF Retried(call, r.status_code)
                  THEN ToBackoff(g)
                  ELSE Completed(g, RecordFailed(results, g.type, g.num, g.data, FALSE),
                                 NoResponse)
             [] OTHER ->
                  IF CaughtByExceptException(call)
                  THEN Completed(g, RecordFailed(results, g.type, g.num, g.data, TRUE),
                                 NoResponse)
                  ELSE Propagate(g, r.what)

\* the iteration in a run whose access token needs no refresh
Request(o, retry_after) == sync_func(o, retry_after) /\ UNCHANGED posts

\* _sync_batch, line 217: time.sleep(backoff) is over, the retry begins
BackoffSleep ==
    /\ pc = "backoff"
    /\ pc' = "request"
    /\ call' = 2
    /\ attempt' = 0
    /\ cur' = [cur EXCEPT !.backoff_slept = Backoff(consecutive_failures)]
    /\ UNCHANGED <<client_vars, export_vars, cmd_vars, is_authenticated, args,
                   batch_type, i, consecutive_failures, results, failed_file,
                   exc, flight, log, accepted>>

(***************************************************************************)
(* sync, lines 79-87: KeyboardInterrupt while the run is inside the try:    *)
(* the except clause, the finally clause and the return                    *)
(***************************************************************************)
InterruptedSilently(res) == [res EXCEPT !.errors = Append(@, INTERRUPT_NOTE)]

Interrupted(res) ==
    [res EXCEPT !.stopped_early = TRUE, !.errors = Append(@, INTERRUPT_NOTE)]

Interrupt ==
    /\ pc \in {"ratings", "history", "request", "backoff"}
    /\ results' = Interrupted(results)
    /\ failed_file' = SavedFile(Interrupted(results))
    /\ pc' = "done"
    /\ cur' = IF cur.result = "pending" THEN [cur EXCEPT !.result = "interrupted"] ELSE cur
    /\ flight' = NoFlight
    /\ UNCHANGED <<client_vars, export_vars, cmd_vars, is_authenticated, args,
                   batch_type, i, call, attempt, consecutive_failures, exc,
                   log, accepted>>

(***************************************************************************)
(* sync, lines 84-87: the finally clause and the return of a run that was   *)
(* neither interrupted nor left by an exception                            *)
(***************************************************************************)
Save ==
    /\ pc = "save"
    /\ failed_file' = SavedFile(results)
    /\ pc' = "done"
    /\ UNCHANGED <<client_vars, export_vars, cmd_vars, is_authenticated, args,
                   batch_type, i, call, attempt, consecutive_failures, results,
                   exc, cur, flight, log, accepted>>

Next ==
    \/ SyncEntry
    \/ RatingsPhase
    \/ HistoryPhase
    \/ \E o \in Outcomes : \E retry_after \in RetryAfterOf(o) : Request(o, retry_after)
    \/ BackoffSleep
    \/ Interrupt
    \/ Save

Spec == Init /\ [][Next]_vars

(***************************************************************************)
(* Specification of a long run: sync called with one chain of LongRun       *)
(* batches, the ratings or the history (shows, then movies)                 *)
(***************************************************************************)
\* the number of batches of the chain
LongRun == 5

\* shows that fill LongRun - 2 batches and movies for two more: the rating
\* batches run through both lists, the history batches through each
LongRunArgs ==
    LET long == Payload((LongRun - 2) * BATCH_SIZE, LongList)
    IN  {[ratings_data |-> IF ratings THEN long ELSE Payload(0, 0),
          history_data |-> IF ratings THEN Payload(0, 0) ELSE long,
          sync_ratings |-> ratings, sync_history |-> ~ratings,
          dry_run |-> FALSE, output_dir |-> TRUE] : ratings \in BOOLEAN}

LongRunInit ==
    /\ is_authenticated \in BOOLEAN
    /\ args \in LongRunArgs
    /\ pc = "entry"
    /\ SyncNotBegun
    /\ NoCommand
    /\ NoExport
    /\ NoClient

LongRunSpec == LongRunInit /\ [][Next]_vars

(***************************************************************************)
(* Specification of the requests of a run: sync called with few batches,    *)
(* every HTTP request counted.  _request builds the headers of every        *)
(* iteration through _get_headers and _access_token, which calls            *)
(* _refresh_token (a POST to /oauth/token) when the token is within five    *)
(* minutes of its expiry, or has no expiry recorded.  A process that is      *)
(* not interrupted runs on: the specification is fair.                      *)
(***************************************************************************)
\* the runs whose requests are counted: a list of shows to rate, or a list
\* of movies to add to the history
HttpArgs ==
    {a \in Args : /\ \/ /\ a.ratings_data = Payload(LongList, 0)
                        /\ a.history_data = Payload(0, 0)
                     \/ /\ a.ratings_data = Payload(0, 0)
                        /\ a.history_data = Payload(0, LongList)
                  /\ ~a.dry_run
                  /\ a.output_dir
                  /\ a.sync_ratings /\ a.sync_history}

HttpInit ==
    /\ is_authenticated \in BOOLEAN
    /\ args \in HttpArgs
    /\ pc = "entry"
    /\ SyncNotBegun
    /\ NoCommand
    /\ NoExport
    /\ NoClient

\* the requests of one iteration of the loop of _request: the refresh of
\* _refresh_token if refreshed, then client.request unless the refresh
\* raised TraktAuthError
PostsOf(p, o, refreshed) ==
    [sync |-> p.sync + (IF o.kind = "TraktAuthError" THEN 0 ELSE 1),
     oauth |-> p.oauth + (IF refreshed THEN 1 ELSE 0)]

\* one iteration of the request loop whose headers are built with or
\* without a refresh of the token
RequestRefreshing(o, retry_after, refreshed) ==
    /\ sync_func(o, retry_after)
    /\ posts' = PostsOf(posts, o, refreshed)

HttpNext ==
    \/ SyncEntry
    \/ RatingsPhase
    \/ HistoryPhase
    \/ \E o \in Outcomes : \E retry_after \in RetryAfterOf(o) : \E refreshed \in BOOLEAN :
           RequestRefreshing(o, retry_after, refreshed)
    \/ BackoffSleep
    \/ Interrupt
    \/ Save

HttpSpec == HttpInit /\ [][HttpNext]_vars /\ WF_vars(HttpNext)

TypeOK ==
    /\ pc \in {"entry", "ratings", "history", "request", "backoff", "save", "done"}
    /\ call \in 1..2
    /\ attempt \in 0..(retries - 1)
    /\ consecutive_failures \in 0..MAX_CONSECUTIVE_FAILURES

(***************************************************************************)
(* Saving and loading a checkpoint, as tests/test_trakt_exporter.py          *)
(* (TestCheckpoint) drives them: a checkpoint is saved and loaded back, or   *)
(* a file that is no checkpoint is loaded.                                  *)
(***************************************************************************)
\* no run of sync is involved
NoSync(p) ==
    /\ is_authenticated = FALSE
    /\ args = [ratings_data |-> Payload(0, 0), history_data |-> Payload(0, 0),
               sync_ratings |-> FALSE, sync_history |-> FALSE,
               dry_run |-> FALSE, output_dir |-> FALSE]
    /\ pc = p
    /\ SyncNotBegun

CheckpointInit ==
    /\ NoSync("test")
    /\ resume = FALSE
    /\ checkpoint_file \in BrokenFiles
    /\ checkpoint \in Checkpoints
    /\ loaded = LoadResult("none", NoCheckpoint)
    /\ now \in Clock
    /\ rc = -1
    /\ NoExport
    /\ NoClient

\* save_checkpoint(checkpoint, path); open(path, "w") raises OSError on a
\* path that cannot be opened
SaveCheckpoint ==
    /\ pc = "test"
    /\ IF checkpoint_file.kind = "unreadable"
       THEN /\ exc' = "OSError"
            /\ pc' = "done"
            /\ UNCHANGED checkpoint_file
       ELSE /\ checkpoint_file' = save_checkpoint(checkpoint, now)
            /\ pc' = "saved"
            /\ UNCHANGED exc
    /\ UNCHANGED <<client_vars, export_vars, is_authenticated, args,
                   batch_type, i, call, attempt, consecutive_failures, results,
                   failed_file, cur, flight, log, accepted, resume, checkpoint,
                   loaded, now, rc>>

\* loaded = load_checkpoint(path), of the file just saved or of the file found
LoadCheckpoint ==
    /\ pc \in {"test", "saved"}
    /\ loaded' = load_checkpoint(checkpoint_file)
    /\ exc' = loaded'.raised
    /\ pc' = IF pc = "saved" THEN "reloaded" ELSE "loaded"
    /\ UNCHANGED <<client_vars, export_vars, is_authenticated, args,
                   batch_type, i, call, attempt, consecutive_failures, results,
                   failed_file, cur, flight, log, accepted, resume,
                   checkpoint_file, checkpoint, now, rc>>

CheckpointNext == SaveCheckpoint \/ LoadCheckpoint

CheckpointSpec == CheckpointInit /\ [][CheckpointNext]_vars

(***************************************************************************)
(* The sync command: cmd_sync (src/src/main.py) loads the checkpoint when   *)
(* --resume is given and calls TraktExporter.sync_to_trakt, which generates *)
(* the payloads and calls TraktSyncer.sync.  The entries are abstracted to  *)
(* the payloads generated from them: the payload of a category that is not  *)
(* requested is None.  The output directory is always given.                *)
(***************************************************************************)
\* the total number of batches of a run of the command
MaxCommandBatches == 2

CommandArgs ==
    {a \in Args :
        /\ a.output_dir
        /\ InputBatches(a) <= MaxCommandBatches
        /\ ~a.sync_ratings => ~Truthy(a.ratings_data)
        /\ ~a.sync_history => ~Truthy(a.history_data)}

\* checkpoint files an earlier run may have left
EarlierCheckpoints ==
    {c \in Checkpoints :
        /\ c.errors = <<>>
        /\ c.timestamp = Datetime(0, 0)
        /\ c.synced_ratings = c.synced_history
        /\ Len(c.synced_ratings) <= 1}

EarlierFiles ==
    {[save_checkpoint(c, Datetime(0, 0)) EXCEPT !.written = FALSE] : c \in EarlierCheckpoints}

CommandInit ==
    /\ is_authenticated \in BOOLEAN
    /\ args \in CommandArgs
    /\ pc = "cmd"
    /\ SyncNotBegun
    /\ resume \in BOOLEAN
    /\ checkpoint_file \in BrokenFiles \cup EarlierFiles
    /\ checkpoint = NoCheckpoint
    /\ loaded = LoadResult("none", NoCheckpoint)
    /\ now = Datetime(MaxTime + 1, 0)
    /\ rc = -1
    /\ NoExport
    /\ NoClient

\* cmd_sync, lines 166-172: checkpoint = load_checkpoint(path) if args.resume
LoadedForResume(r, file) ==
    IF r THEN load_checkpoint(file) ELSE LoadResult("none", NoCheckpoint)

\* cmd_sync up to the call of TraktSyncer.sync: the early returns, the
\* checkpoint, and sync_to_trakt, which takes the checkpoint and does not
\* read it
CmdSync ==
    /\ pc = "cmd"
    /\ LET l == LoadedForResume(resume, checkpoint_file)
       IN  IF (~args.sync_history /\ ~args.sync_ratings) \/ ~is_authenticated
           THEN /\ rc' = 1
                /\ pc' = "exit"
                /\ UNCHANGED <<exc, checkpoint>>
           ELSE IF l.raised # "none"
           THEN /\ exc' = l.raised
                /\ pc' = "exit"
                /\ UNCHANGED <<rc, checkpoint>>
           ELSE /\ checkpoint' = l.value
                /\ pc' = "entry"
                /\ UNCHANGED <<rc, exc>>
    /\ UNCHANGED <<client_vars, export_vars, is_authenticated, args,
                   batch_type, i, call, attempt, consecutive_failures, results,
                   failed_file, cur, flight, log, accepted, resume,
                   checkpoint_file, loaded, now>>

\* cmd_sync, lines 191-241: sync has returned or raised; the results are
\* reported and the command returns 0, or the exception leaves it
CmdReturn ==
    /\ pc = "done"
    /\ pc' = "exit"
    /\ rc' = IF exc = "none" THEN 0 ELSE rc
    /\ UNCHANGED <<client_vars, export_vars, is_authenticated, args,
                   batch_type, i, call, attempt, consecutive_failures, results,
                   failed_file, exc, cur, flight, log, accepted, resume,
                   checkpoint_file, checkpoint, loaded, now>>

CommandNext ==
    \/ CmdSync
    \/ SyncEntry
    \/ RatingsPhase
    \/ HistoryPhase
    \/ \E o \in Outcomes : \E retry_after \in RetryAfterOf(o) : Request(o, retry_after)
    \/ BackoffSleep
    \/ Interrupt
    \/ Save
    \/ CmdReturn

CommandSpec == CommandInit /\ [][CommandNext]_vars

(***************************************************************************)
(* The exporter on a list of entries and a fetched remote state:            *)
(* resolve_conflicts, then generate_ratings_json and generate_history_json, *)
(* as sync_to_trakt calls them (lines 196-200).  The inputs are every       *)
(* single entry of a wide set against every remote state of a wide set,     *)
(* and the lists of entries of a narrow set.                                *)
(***************************************************************************)
\* episode numbers, and the length of a list of watched episodes
MaxEpisode == 2
\* the length of the lists of entries
MaxEntries == 2

RatedAts == {Datetime(20230415, 0), Datetime(20240101, 0)}

MappedSamples ==
    {NoMappedIds,
     MappedIds(0, 0, 0, 0, 1, 0),
     MappedIds(1, 0, 0, 0, 1, 1),
     MappedIds(1, 0, 0, 1, 2, 0),
     MappedIds(2, 1, 1, 1, 1, 0),
     MappedIds(0, 0, 0, 1, 1, 0),
     MappedIds(0, 1, 0, 0, 1, 0),
     MappedIds(0, 0, 1, 0, 1, 0)}

RatingSamples == {NoRating} \cup {AnimeRating(8, d) : d \in RatedAts \cup {NoDatetime}}

Episodes ==
    {WatchedEpisode(n, type, Datetime(20230415, 0)) :
        n \in 1..MaxEpisode, type \in {"REGULAR", "SPECIAL", "CREDITS"}}

\* the lists of at most MaxEpisode different episodes
RECURSIVE EpisodeLists(_)
EpisodeLists(n) ==
    IF n = 0 THEN {<<>>}
    ELSE EpisodeLists(n - 1)
         \cup {Append(l, ep) : l \in {x \in EpisodeLists(n - 1) : Len(x) = n - 1},
                               ep \in Episodes}

WatchedSamples ==
    {l \in EpisodeLists(MaxEpisode) : \A j, k \in 1..Len(l) : j # k => l[j] # l[k]}

Entries ==
    {AnimeEntry(m, r, w) : m \in MappedSamples, r \in RatingSamples, w \in WatchedSamples}

NarrowEntries ==
    {e \in Entries :
        /\ e.mapped_ids.imdb_id = 0 /\ e.mapped_ids.tvdb_season = 1
        /\ e.mapped_ids.tmdb_show_id = 0
        /\ e.rating \in {NoRating} \cup {AnimeRating(8, d) : d \in RatedAts}
        /\ e.watched_episodes \in
              {<<>>, <<WatchedEpisode(1, "REGULAR", Datetime(20230415, 0))>>}}

RECURSIVE Lists(_, _)
Lists(S, n) ==
    IF n = 0 THEN {<<>>}
    ELSE {<<>>} \cup {<<e>> \o l : e \in S, l \in Lists(S, n - 1)}

\* the remote holds the rating under show_1 and movie_1 and the watched
\* episodes under show_1
Fetched(rating_data, watched_data) ==
    [ratings |-> [k \in Keys |-> IF k[2] = 1 THEN rating_data ELSE NoRemoteRating],
     watched |-> [k \in Keys |-> IF k = <<"show", 1>> THEN watched_data
                                 ELSE NoRemoteWatched]]

RemoteRatingSamples ==
    {NoRemoteRating}
    \cup {RemoteRating(score, d) : score \in {7, 8}, d \in RatedAts \cup {NoDatetime}}

RemoteWatchedSamples ==
    {NoRemoteWatched, RemoteWatched(<<>>),
     RemoteWatched(<<Season(0, <<1>>), Season(1, <<2>>)>>),
     RemoteWatched(<<Season(1, <<1>>)>>)}

\* the remote holds different ratings under show_1, movie_1 and show_2, and
\* watched episodes under show_1 and show_2
FetchedApart ==
    [ratings |-> [k \in Keys |->
                    IF k = <<"show", 1>> THEN RemoteRating(7, Datetime(20230415, 0))
                    ELSE IF k = <<"movie", 1>> THEN RemoteRating(9, Datetime(20240101, 0))
                    ELSE IF k = <<"show", 2>> THEN RemoteRating(6, NoDatetime)
                    ELSE NoRemoteRating],
     watched |-> [k \in Keys |->
                    IF k = <<"show", 1>> THEN RemoteWatched(<<Season(1, <<1>>)>>)
                    ELSE IF k = <<"show", 2>> THEN RemoteWatched(<<Season(0, <<2, 1>>)>>)
                    ELSE NoRemoteWatched]]

FetchedStates ==
    {Fetched(r, w) : r \in RemoteRatingSamples, w \in RemoteWatchedSamples}
    \cup {FetchedApart}

NarrowFetchedStates ==
    {NothingFetched, FetchedApart,
     Fetched(RemoteRating(7, Datetime(20230415, 0)),
             RemoteWatched(<<Season(1, <<1>>)>>))}

ExportInit ==
    /\ NoSync("export")
    /\ NoCommand
    /\ NoClient
    /\ \/ anime_list \in {<<e>> : e \in Entries} /\ trakt \in FetchedStates
       \/ anime_list \in Lists(NarrowEntries, MaxEntries) /\ trakt \in NarrowFetchedStates
    /\ resolutions = <<>>
    /\ ratings_json = Payload(0, 0)
    /\ history_json = Payload(0, 0)

\* resolutions = self.resolve_conflicts(anime_list)
ResolveConflicts ==
    /\ pc = "export"
    /\ resolutions' = resolve(anime_list, trakt)
    /\ pc' = "resolved"
    /\ UNCHANGED <<client_vars, cmd_vars, is_authenticated, args, batch_type,
                   i, call, attempt, consecutive_failures, results,
                   failed_file, exc, cur, flight, log, accepted, anime_list,
                   trakt, ratings_json, history_json>>

\* ratings_data = self.generate_ratings_json(anime_list, resolutions);
\* history_data = self.generate_history_json(anime_list)
GenerateJson ==
    /\ pc = "resolved"
    /\ ratings_json' = generate_ratings_json(anime_list, resolutions)
    /\ history_json' = generate_history_json(anime_list)
    /\ pc' = "generated"
    /\ UNCHANGED <<client_vars, cmd_vars, is_authenticated, args, batch_type,
                   i, call, attempt, consecutive_failures, results,
                   failed_file, exc, cur, flight, log, accepted, anime_list,
                   trakt, resolutions>>

\* resolve_conflicts(anime_list, fetch_existing=False) called once more on
\* the same entries: nothing is fetched in between
ResolveAgain ==
    /\ pc = "resolved"
    /\ resolutions' = resolve(anime_list, trakt)
    /\ pc' = "resolved_twice"
    /\ UNCHANGED <<client_vars, cmd_vars, is_authenticated, args, batch_type,
                   i, call, attempt, consecutive_failures, results,
                   failed_file, exc, cur, flight, log, accepted, anime_list,
                   trakt, ratings_json, history_json>>

ExportNext == ResolveConflicts \/ ResolveAgain \/ GenerateJson

ExportSpec == ExportInit /\ [][ExportNext]_vars

(***************************************************************************)
(* Specification of the client: calls of TraktClient._request, one after    *)
(* the other, with the time that passes.  time.sleep(s) takes s or longer.  *)
(***************************************************************************)
\* no call of _request begins after this time
MaxClock == 40
\* the time that passes, beyond what is slept, between two steps
MaxLag == 1

\* the status of a response; -1 is httpx.HTTPError raised by client.request
Responses == {200, 204, 429, 500, -1}
\* Retry-After of a 429, in seconds
ClientRetryAfters == {0} \cup RetryAfters

ClientInit ==
    /\ NoSync("client")
    /\ NoCommand
    /\ NoExport
    /\ time \in {0, POST_RATE_LIMIT}
    /\ last_request_time = 0
    /\ request = NoRequest
    /\ queries = <<>>
    /\ posts = NoPosts

\* _request is called, lines 183-184
BeginRequest ==
    /\ pc = "client"
    /\ time <= MaxClock
    /\ \E method \in {"GET", "POST", "DELETE"}, lag \in {0, POST_RATE_LIMIT} :
          /\ request' = RequestCall(method)
          /\ time' = time + lag
    /\ pc' = "rate_limit"
    /\ UNCHANGED <<sync_vars_but_pc, cmd_vars, export_vars, last_request_time, queries, posts>>

\* self._rate_limit(is_post), lines 153-157
RateLimit ==
    /\ pc = "rate_limit"
    /\ \E lag \in 0..MaxLag :
          time' = time + rate_limit_sleep(is_post(request.method), time,
                                          last_request_time) + lag
    /\ last_request_time' = time'
    /\ request' = [request EXCEPT !.previous = last_request_time, !.issued_at = -1,
                                  !.response = 0]
    /\ pc' = "send"
    /\ UNCHANGED <<sync_vars_but_pc, cmd_vars, export_vars, queries, posts>>

\* client.request(...), lines 190-195
Send ==
    /\ pc = "send"
    /\ \E lag \in 0..MaxLag, response \in Responses :
          /\ time' = time + lag
          /\ request' = [request EXCEPT !.issued_at = time', !.response = response]
    /\ pc' = "response"
    /\ UNCHANGED <<sync_vars_but_pc, cmd_vars, export_vars, last_request_time, queries, posts>>

\* the attempt is over and the loop goes on, if it has an attempt left;
\* "Max retries exceeded" raises after the loop, line 225
NextAttempt(slept) ==
    /\ \E lag \in 0..MaxLag : time' = time + slept + lag
    /\ IF request.attempt + 1 < retries
       THEN /\ request' = [request EXCEPT !.attempt = @ + 1]
            /\ pc' = "rate_limit"
       ELSE /\ request' = [request EXCEPT !.result = "TraktAPIError"]
            /\ pc' = "client"

\* lines 197-223: what _request does with the response
Respond ==
    /\ pc = "response"
    /\ \/ /\ request.response = 429
          /\ \E retry_after \in ClientRetryAfters : NextAttempt(10 * retry_after)
       \/ /\ request.response = -1
          /\ IF request.attempt < retries - 1
             THEN NextAttempt(10 * 2 ^ request.attempt)
             ELSE /\ request' = [request EXCEPT !.result = "TraktAPIError"]
                  /\ pc' = "client"
                  /\ time' = time
       \/ /\ request.response \notin {429, -1}
          /\ request' = [request EXCEPT !.result =
                            IF request.response >= 400 THEN "TraktAPIError"
                            ELSE "returned"]
          /\ pc' = "client"
          /\ time' = time
    /\ UNCHANGED <<sync_vars_but_pc, cmd_vars, export_vars, last_request_time, queries, posts>>

ClientNext == BeginRequest \/ RateLimit \/ Send \/ Respond

ClientSpec == ClientInit /\ [][ClientNext]_vars

(***************************************************************************)
(* Specification of the fetch: TraktDataFetcher.fetch with its three        *)
(* queries, each of which returns a list of items or raises, possibly       *)
(* after some of its items were indexed (an item that is no dict).  The     *)
(* access token needs no refresh while the queries run.                     *)
(***************************************************************************)
\* what a query may raise; "none" when it raises nothing
Raised == {"none", "TraktAPIError", "TraktAuthError", "AttributeError", "KeyboardInterrupt"}

except_TraktAPIError(e) == e = "TraktAPIError"

\* except Exception: every exception but KeyboardInterrupt is caught
except_Exception(e) == e # "KeyboardInterrupt"

\* the lists of items of a response, their identifiers different; id is
\* ids.tvdb of a show and ids.tmdb of a movie, 0 when the item has none
ItemLists(Values) ==
    LET One == {[id |-> n, value |-> v] : n \in 0..MaxId, v \in Values}
    IN  {<<>>} \cup {<<a>> : a \in One}
        \cup {<<a, b>> : a \in {x \in One : x.id = 1}, b \in {x \in One : x.id = 2}}

\* the rating and rated_at of an item of /users/me/ratings
RatingValues ==
    {[rating |-> 7, rated_at |-> iso] :
        iso \in {NoIso, datetime_to_iso(Datetime(20230415, 0))}}

\* the seasons of an item of /users/me/watched
WatchedValues == {<<>>, <<Season(1, <<1>>)>>}

\* _fetch_ratings, lines 47-56 and 61-70: the items with an identifier are
\* put into _ratings under <type>_<id>
index_ratings(ratings, type, items) ==
    [k \in Keys |->
        IF \E n \in 1..Len(items) : k = <<type, items[n].id>>
        THEN LET item == items[CHOOSE n \in 1..Len(items) : k = <<type, items[n].id>>]
             IN  RemoteRating(item.value.rating, iso_to_datetime(item.value.rated_at))
        ELSE ratings[k]]

\* _fetch_watched, lines 77-95
index_watched(watched, items) ==
    [k \in Keys |->
        IF \E n \in 1..Len(items) : k = <<"show", items[n].id>>
        THEN RemoteWatched(
                 items[CHOOSE n \in 1..Len(items) : k = <<"show", items[n].id>>].value)
        ELSE watched[k]]

FetchInit ==
    /\ is_authenticated \in BOOLEAN
    /\ args = [ratings_data |-> Payload(0, 0), history_data |-> Payload(0, 0),
               sync_ratings |-> FALSE, sync_history |-> FALSE,
               dry_run |-> FALSE, output_dir |-> FALSE]
    /\ pc = "fetch"
    /\ SyncNotBegun
    /\ NoCommand
    /\ anime_list = <<>>
    /\ trakt \in {NothingFetched, FetchedApart}
    /\ resolutions = <<>>
    /\ ratings_json = Payload(0, 0)
    /\ history_json = Payload(0, 0)
    /\ NoClient

\* fetch, lines 34-35: no-op if the client is not authenticated
Fetch ==
    /\ pc = "fetch"
    /\ pc' = IF is_authenticated THEN "ratings/shows" ELSE "fetched"
    /\ UNCHANGED <<sync_vars_but_pc, cmd_vars, export_vars, client_vars>>

\* one try block of _fetch_ratings or _fetch_watched: the query is issued,
\* the items it returned before anything was raised are indexed, and what
\* was raised is caught or ends fetch; refreshes is the number of attempts
\* of the query whose headers were built with a refresh of the token
Query(name, items, raised, refreshes, then) ==
    /\ pc = name
    /\ queries' = Append(queries, [query |-> name, items |-> items, raised |-> raised])
    /\ posts' = [posts EXCEPT !.oauth = @ + refreshes]
    /\ trakt' =
          CASE name = "ratings/shows" ->
                   [trakt EXCEPT !.ratings = index_ratings(@, "show", items)]
            [] name = "ratings/movies" ->
                   [trakt EXCEPT !.ratings = index_ratings(@, "movie", items)]
            [] OTHER -> [trakt EXCEPT !.watched = index_watched(@, items)]
    /\ IF raised = "none" \/ except_Exception(raised)
       THEN pc' = then /\ exc' = exc
       ELSE pc' = "raised" /\ exc' = raised
    /\ UNCHANGED <<is_authenticated, args, batch_type, i, call, attempt,
                   consecutive_failures, results, failed_file, cur, flight, log,
                   accepted, cmd_vars, anime_list, resolutions, ratings_json,
                   history_json, time, last_request_time, request>>

\* _fetch_ratings, lines 46-58
FetchShowRatings ==
    \E items \in ItemLists(RatingValues), raised \in Raised :
        Query("ratings/shows", items, raised, 0, "ratings/movies")

\* _fetch_ratings, lines 60-72
FetchMovieRatings ==
    \E items \in ItemLists(RatingValues), raised \in Raised :
        Query("ratings/movies", items, raised, 0, "watched/shows")

\* _fetch_watched
FetchWatched ==
    \E items \in ItemLists(WatchedValues), raised \in Raised :
        Query("watched/shows", items, raised, 0, "fetched")

FetchNext == Fetch \/ FetchShowRatings \/ FetchMovieRatings \/ FetchWatched

FetchSpec == FetchInit /\ [][FetchNext]_vars

(***************************************************************************)
(* Specification of TraktExporter.sync_to_trakt (src/src/trakt_exporter.py  *)
(* lines 184-213): the authentication check, resolve_conflicts with the     *)
(* fetch of the remote state (three GET queries, each attempt of which may  *)
(* refresh the token with a POST to /oauth/token), the generation of the    *)
(* payloads, and TraktSyncer.sync, dry or not.  An item of a payload is     *)
(* known to the engine by its position in its list.                         *)
(***************************************************************************)
\* the entries given to sync_to_trakt: a show, rated and watched, or a
\* movie, rated and watched
ShowEntry ==
    AnimeEntry(MappedIds(1, 0, 0, 0, 1, 0), AnimeRating(8, Datetime(20240101, 0)),
               <<WatchedEpisode(1, "REGULAR", Datetime(20230415, 0))>>)

MovieEntry ==
    AnimeEntry(MappedIds(0, 0, 0, 1, 1, 0), AnimeRating(8, Datetime(20230415, 0)),
               <<WatchedEpisode(1, "REGULAR", Datetime(20230415, 0))>>)

\* what the remote answers to the queries of the fetcher when they succeed
RemoteItems(name) ==
    CASE name = "ratings/shows" ->
             <<[id |-> 1, value |-> [rating |-> 7,
                                     rated_at |-> datetime_to_iso(Datetime(20230415, 0))]]>>
      [] name = "ratings/movies" -> <<>>
      [] OTHER -> <<[id |-> 1, value |-> <<Season(1, <<1>>)>>]>>

SyncToTraktInit ==
    /\ is_authenticated \in BOOLEAN
    /\ args \in [ratings_data : {Payload(0, 0)}, history_data : {Payload(0, 0)},
                 sync_ratings : BOOLEAN, sync_history : {TRUE},
                 dry_run : BOOLEAN, output_dir : {TRUE}]
    /\ pc = "sync_to_trakt"
    /\ SyncNotBegun
    /\ NoCommand
    /\ anime_list \in {<<ShowEntry>>, <<MovieEntry>>}
    /\ trakt = NothingFetched
    /\ resolutions = <<>>
    /\ ratings_json = Payload(0, 0)
    /\ history_json = Payload(0, 0)
    /\ NoClient

\* sync_to_trakt, lines 193-194: the authentication check; then
\* resolve_conflicts calls ConflictResolver.resolve, which fetches
SyncToTrakt ==
    /\ pc = "sync_to_trakt"
    /\ IF ~is_authenticated
       THEN pc' = "done" /\ exc' = "RuntimeError"
       ELSE pc' = "fetch" /\ exc' = exc
    /\ UNCHANGED <<client_vars, export_vars, cmd_vars, is_authenticated, args,
                   batch_type, i, call, attempt, consecutive_failures, results,
                   failed_file, cur, flight, log, accepted>>

\* a query of the fetcher that runs inside sync_to_trakt: it returns the
\* items of the remote or raises, after up to retries attempts
QueryOfRemote(name, then) ==
    \E raised \in {"none", "TraktAPIError", "KeyboardInterrupt"}, refreshes \in 0..retries :
        Query(name, IF raised = "none" THEN RemoteItems(name) ELSE <<>>, raised,
              refreshes, then)

\* resolve, lines 159-160: data_fetcher.fetch() and its three queries; the
\* entries are resolved next
FetchForResolve ==
    \/ QueryOfRemote("ratings/shows", "ratings/movies")
    \/ QueryOfRemote("ratings/movies", "watched/shows")
    \/ QueryOfRemote("watched/shows", "export")

\* the payload as the engine knows it
AsPayload(json) == Payload(Len(json.shows), Len(json.movies))

\* sync_to_trakt, lines 200-213: a payload is None unless its category is
\* requested; TraktSyncer.sync is called
CallSync ==
    /\ pc = "generated"
    /\ args' = [args EXCEPT
                  !.ratings_data = IF args.sync_ratings THEN AsPayload(ratings_json)
                                   ELSE Payload(0, 0),
                  !.history_data = IF args.sync_history THEN AsPayload(history_json)
                                   ELSE Payload(0, 0)]
    /\ pc' = "entry"
    /\ UNCHANGED <<client_vars, export_vars, cmd_vars, is_authenticated,
                   batch_type, i, call, attempt, consecutive_failures, results,
                   failed_file, exc, cur, flight, log, accepted>>

SyncToTraktNext ==
    \/ SyncToTrakt
    \/ Fetch
    \/ FetchForResolve
    \/ ResolveConflicts
    \/ GenerateJson
    \/ CallSync
    \/ SyncEntry
    \/ RatingsPhase
    \/ HistoryPhase
    \/ \E o \in Outcomes : \E retry_after \in RetryAfterOf(o) :
           RequestRefreshing(o, retry_after, FALSE)
    \/ BackoffSleep
    \/ Interrupt
    \/ Save

SyncToTraktSpec == SyncToTraktInit /\ [][SyncToTraktNext]_vars

(***************************************************************************)
(* Vocabulary of the properties                                            *)
(***************************************************************************)
\* the chain a batch type belongs to: the failure counter is per chain
Chain(type) == IF type = "ratings" THEN "ratings" ELSE "history"

\* the batches k-2, k-1, k of the log are of one chain and all failed
ThreeFailuresAt(k) ==
    /\ k >= MAX_CONSECUTIVE_FAILURES
    /\ \A j \in (k - 2)..k : ~log[j].ok /\ Chain(log[j].type) = Chain(log[k].type)

\* the entry of failed_batches.json for the batch with history g
FailedEntry(g) == [type |-> g.type, data |-> g.data]

\* the batch with history g is the one recorded last, and recorded once
RecordedOnce(g) ==
    /\ Len(results.failed_batches) = g.failed_before + 1
    /\ results.failed_batches[Len(results.failed_batches)] = FailedEntry(g)

NoteCount == Cardinality({k \in 1..Len(results.errors) : results.errors[k] = INTERRUPT_NOTE})

\* the batches whose send was attempted
Attempted ==
    {<<log[k].type, log[k].num>> : k \in 1..Len(log)}
    \cup (IF cur.calls > 0 THEN {<<cur.type, cur.num>>} ELSE {})

InRecoveryFile(b) ==
    /\ failed_file.written
    /\ \E k \in 1..Len(failed_file.content) :
          failed_file.content[k] =
              [type |-> b[1], data |-> BatchData(b[1], (b[2] - 1) * BATCH_SIZE)]

\* the failed batches of the log, in order, as entries of the recovery file
FailedOfLog ==
    LET f == SelectSeq(log, LAMBDA e : ~e.ok)
    IN  [k \in 1..Len(f) |->
            [type |-> f[k].type, data |-> BatchData(f[k].type, (f[k].num - 1) * BATCH_SIZE)]]

(***************************************************************************)
(* C1.  Circuit breaker: as soon as three consecutive batches of one chain  *)
(* have failed, stopped_early is true and no further batch is sent: the     *)
(* three failures are the end of the log, the run is past its last request  *)
(* and the batch sent last is the third failed one.                        *)
(***************************************************************************)
C1_CircuitBreaker ==
    \A k \in 1..Len(log) :
        ThreeFailuresAt(k) =>
            /\ results.stopped_early
            /\ k = Len(log)
            /\ pc \in {"history", "save", "done"}
            /\ cur.type = log[k].type /\ cur.num = log[k].num
            /\ cur.result = "failed"

\* batches 1, 2 (shows) and 3 (movies) of a history chain of four batches
\* failed with a server error at the first call and at the retry; the
\* fourth batch was never sent
C1_Witness ==
    /\ pc = "done" /\ exc = "none"
    /\ Len(log) = 3
    /\ \A k \in 1..3 : ~log[k].ok /\ log[k].retried /\ Chain(log[k].type) = "history"
    /\ total_batches(Len(args.history_data.shows)) = 2
    /\ total_batches(Len(args.history_data.movies)) = 2
    /\ results.stopped_early
    /\ <<"history/movies", 2>> \notin Attempted

(***************************************************************************)
(* C2.  A batch gets at most two sync calls; the second one is made exactly *)
(* when the first ended in an API error of status >= 500 (unless the user   *)
(* interrupts the backoff sleep), and after the backoff sleep; when the     *)
(* retry ends in an API error too, the batch is appended to failed_batches  *)
(* once, with its category and payload, and the counter grows by one.       *)
(***************************************************************************)
C2_RetryOnce ==
    /\ cur.calls <= 2
    /\ cur.calls = 2 =>
          /\ cur.first_status >= 500
          /\ cur.backoff_slept = Backoff(cur.cf_before)
          /\ cur.backoff_slept > 0
    /\ (cur.first_status >= 500 /\ cur.result # "interrupted") =>
          \/ pc = "backoff" /\ cur.calls = 1 /\ cur.backoff_slept = 0
          \/ pc = "request" /\ call = 2 /\ cur.backoff_slept > 0
          \/ cur.calls = 2
    /\ (cur.calls = 2 /\ cur.result = "failed") =>
          /\ RecordedOnce(cur)
          /\ cur.cf_after = cur.cf_before + 1

C2_Witness ==
    /\ cur.calls = 2 /\ cur.result = "failed"
    /\ cur.first_status = 503
    /\ cur.cf_before = 1
    /\ Len(results.failed_batches) = 2

(***************************************************************************)
(* C3.  A batch whose first call ends in an API error of status below 500   *)
(* is not retried and sleeps no backoff; it is recorded as failed right     *)
(* away and counts as one failure for the circuit breaker.                  *)
(***************************************************************************)
C3_NoRetryBelow500 ==
    (cur.first_status >= 0 /\ cur.first_status < 500) =>
        /\ cur.calls = 1
        /\ cur.backoff_slept = 0
        /\ cur.result = "failed"
        /\ RecordedOnce(cur)
        /\ cur.cf_after = cur.cf_before + 1
        /\ (cur.cf_after >= MAX_CONSECUTIVE_FAILURES => results.stopped_early)

\* a 404 as the third failure in a row trips the breaker
C3_Witness ==
    /\ cur.first_status = 404
    /\ cur.result = "failed"
    /\ cur.cf_before = 2
    /\ results.stopped_early
    /\ NoteCount = 0
    /\ pc = "done"

(***************************************************************************)
(* C4.  Every ratings batch is sent before every history batch, and once    *)
(* the ratings phase has stopped early the history phase sends nothing and  *)
(* counts nothing.                                                         *)
(***************************************************************************)
RatingsFirst ==
    /\ \A j, k \in 1..Len(log) :
          (j < k /\ log[k].type = "ratings") => log[j].type = "ratings"
    /\ (cur.type = "ratings" /\ cur.result = "pending") =>
          \A j \in 1..Len(log) : log[j].type = "ratings"

HistorySkipped ==
    (pc = "history" /\ results.stopped_early) =>
        /\ pc' = "done" \/ pc' = "save"
        /\ log' = log
        /\ cur' = cur
        /\ results'.history_added = results.history_added

C4_RatingsBeforeHistory == [](RatingsFirst) /\ [][HistorySkipped]_vars

\* the ratings chain tripped the breaker, a history payload was to be synced
\* and the run ended without a history batch
C4_Witness ==
    /\ pc = "done" /\ exc = "none"
    /\ NoteCount = 0
    /\ Len(log) = 3 /\ ThreeFailuresAt(3) /\ log[3].type = "ratings"
    /\ args.sync_history /\ Truthy(args.history_data) /\ ~args.dry_run
    /\ cur.type = "ratings"
    /\ results.history_added = 0

(***************************************************************************)
(* C5.  No payload is dropped: when a run that was given an output          *)
(* location, was not interrupted and was not ended by an authentication     *)
(* error has ended, every batch whose send was attempted was accepted by    *)
(* the remote API or is in the recovery file.                              *)
(***************************************************************************)
C5_NoSilentDrop ==
    (pc = "done" /\ args.output_dir /\ NoteCount = 0 /\ exc # "TraktAuthError") =>
        \A b \in Attempted : b \in accepted \/ InRecoveryFile(b)

(***************************************************************************)
(* C6.  Per-batch errors never leave the sync loop: a batch that ended in   *)
(* an API error or in an unexpected exception (a failed token refresh left  *)
(* aside), at the first call or at the retry, is recorded in failed_batches *)
(* and no exception leaves sync.                                           *)
(***************************************************************************)
C6_NeverRaises ==
    (cur.exception # "TraktAuthError" /\ cur.result \in {"failed", "raised"}) =>
        /\ exc = "none"
        /\ RecordedOnce(cur)

(***************************************************************************)
(* C7.  As claimed: a 429 response is never the reason why a batch is       *)
(* recorded as failed or why the counter grows; it is retried indefinitely. *)
(***************************************************************************)
C7_Original ==
    /\ ~cur.max_retries_exceeded
    /\ (flight.n429 > 0 =>
          cur.result = "pending" /\ consecutive_failures = cur.cf_before)

(***************************************************************************)
(* C7, amended.  A 429 response makes the client sleep the wait the server  *)
(* asked for and repeat the request while the call has attempts left,       *)
(* leaving counter and failed batches alone; a call makes at most three     *)
(* HTTP requests, and a 429 at the third ends it with the API error         *)
(* "Max retries exceeded" of status 0, for which the batch is recorded as   *)
(* failed without a retry and the counter grows by one.                     *)
(***************************************************************************)
C7_Amended ==
    /\ flight.https <= retries
    /\ flight.n429 > 0 =>
          /\ pc = "request"
          /\ cur.result = "pending"
          /\ attempt = flight.https
          /\ attempt < retries
          /\ consecutive_failures = cur.cf_before
          /\ Len(results.failed_batches) = cur.failed_before
    /\ flight.last_sleep_why = "429" => flight.last_sleep \in RetryAfters
    /\ cur.max_retries_exceeded =>
          /\ cur.result = "failed"
          /\ RecordedOnce(cur)
          /\ cur.cf_after = cur.cf_before + 1
          /\ cur.calls = 1 => cur.first_status = 0 /\ cur.backoff_slept = 0

\* three 429 responses in a row to the first call of a batch
C7_Witness ==
    /\ cur.max_retries_exceeded
    /\ cur.calls = 1
    /\ cur.result = "failed"
    /\ cur.cf_after = 1

(***************************************************************************)
(* C8.  Authentication errors are fatal: without authentication sync raises *)
(* before any request, and a TraktAuthError raised while a batch is sent    *)
(* leaves sync at once instead of being recorded as a failed batch.         *)
(***************************************************************************)
C8_AuthFatal ==
    /\ ~is_authenticated =>
          /\ cur = NoBatch /\ log = <<>> /\ flight = NoFlight
          /\ pc = "done" => exc = "RuntimeError"
    /\ cur.exception = "TraktAuthError" =>
          /\ pc = "done"
          /\ exc = "TraktAuthError"
          /\ cur.result = "raised"
          /\ Len(results.failed_batches) = cur.failed_before

(***************************************************************************)
(* C9.  A user interruption during the ratings or history phase is caught:  *)
(* stopped_early is true, errors holds exactly one interruption note, the   *)
(* failed batches recorded so far are what _save_failed_batches saved, no   *)
(* batch is sent afterwards and sync returns.                              *)
(***************************************************************************)
C9_Interruption ==
    /\ NoteCount <= 1
    /\ NoteCount = 1 =>
          /\ results.stopped_early
          /\ results.errors[Len(results.errors)] = INTERRUPT_NOTE
          /\ pc = "done"
          /\ exc = "none"
          /\ cur.result # "pending"
          /\ results.failed_batches = FailedOfLog
          /\ (args.output_dir /\ results.failed_batches # <<>>) =>
                failed_file = [written |-> TRUE, content |-> results.failed_batches]

\* interrupted while the second batch was in flight, the first one having
\* failed and been saved
C9_Witness ==
    /\ NoteCount = 1
    /\ cur.result = "interrupted"
    /\ Len(results.failed_batches) = 1
    /\ failed_file.written
    /\ pc = "done"

(***************************************************************************)
(* C10.  When sync has ended, failed_batches.json was written exactly if a  *)
(* batch was recorded as failed and an output location was given; it holds  *)
(* the failed batches of the run in the order of failure, each with its     *)
(* category and the payload that was sent.  It is not written earlier.      *)
(***************************************************************************)
C10_RecoveryFile ==
    /\ pc # "done" => ~failed_file.written
    /\ pc = "done" =>
          /\ failed_file.written <=> (results.failed_batches # <<>> /\ args.output_dir)
          /\ failed_file.written => failed_file.content = results.failed_batches
          /\ results.failed_batches = FailedOfLog

\* an exception left sync after two batches had failed: the file holds both
C10_Witness ==
    /\ pc = "done"
    /\ exc = "ValueError"
    /\ failed_file.written
    /\ Len(failed_file.content) = 2
    /\ failed_file.content[1].type = "ratings"
    /\ failed_file.content[2].type = "history/movies"

(***************************************************************************)
(* C11.  When a run that was given an output location stops early (by the   *)
(* circuit breaker or by an interruption), every batch it had to send and   *)
(* never attempted is in durable storage for a later run.                   *)
(***************************************************************************)
\* the batches of chain bt over a list of n items
BatchesOf(bt, n) == {<<bt, k>> : k \in 1..total_batches(n)}

\* the batches the run was asked to send
ToSend ==
    (IF args.sync_ratings
     THEN BatchesOf("ratings", Len(all_items(args.ratings_data))) ELSE {})
    \cup (IF args.sync_history
          THEN BatchesOf("history/shows", Len(args.history_data.shows))
               \cup BatchesOf("history/movies", Len(args.history_data.movies))
          ELSE {})

C11_UnsentPersisted ==
    (pc = "done" /\ exc = "none" /\ results.stopped_early
        /\ args.output_dir /\ ~args.dry_run) =>
        \A b \in ToSend \ Attempted : InRecoveryFile(b)

(***************************************************************************)
(* C12.  A dry run makes no sync call at all; when it returns (not          *)
(* interrupted) ratings_added is the number of show and movie ratings that  *)
(* would be synced, history_added the number of episodes over all seasons   *)
(* of all shows plus the number of movies that would be synced, errors and  *)
(* failed_batches are empty, stopped_early is false and nothing is saved.   *)
(***************************************************************************)
\* the episodes of a history payload, one triple per episode
EpisodesOf(shows) ==
    UNION {UNION {{<<k, s, e>> : e \in 1..SeasonsOf(shows[k])[s]} :
                  s \in 1..Len(SeasonsOf(shows[k]))} :
           k \in 1..Len(shows)}

C12_DryRun ==
    args.dry_run =>
        /\ log = <<>> /\ cur = NoBatch /\ flight = NoFlight /\ accepted = {}
        /\ pc \notin {"request", "backoff"}
        /\ (pc = "done" /\ exc = "none" /\ NoteCount = 0) =>
              /\ results.ratings_added =
                    IF args.sync_ratings
                    THEN Len(args.ratings_data.shows) + Len(args.ratings_data.movies)
                    ELSE 0
              /\ results.history_added =
                    IF args.sync_history
                    THEN Cardinality(EpisodesOf(args.history_data.shows))
                         + Len(args.history_data.movies)
                    ELSE 0
              /\ results.errors = <<>>
              /\ results.failed_batches = <<>>
              /\ ~results.stopped_early
              /\ ~failed_file.written

\* a dry run over a history payload of shows with episodes and of movies
C12_Witness ==
    /\ args.dry_run /\ pc = "done" /\ exc = "none"
    /\ args.history_data.shows # <<>> /\ args.history_data.movies # <<>>
    /\ results.history_added >
          Len(args.history_data.shows) + Len(args.history_data.movies)
    /\ results.errors = <<>>

(***************************************************************************)
(* C13.  The rating batches are sent in the order 1, 2, ...; batch k holds  *)
(* the items 50(k-1)+1 .. min(50k, n) of the combined list (shows, then     *)
(* movies) in their order, which is 50 items for every batch but the last   *)
(* and the remainder for the last; a batch whose first call succeeds gets   *)
(* exactly one call, and a ratings phase that ends without a failed batch   *)
(* has sent exactly ceil(n/50) batches.                                     *)
(***************************************************************************)
CeilDiv(n, d) == CHOOSE m \in 0..n : d * m >= n /\ d * (m - 1) < n

RatingsLog == SelectSeq(log, LAMBDA e : e.type = "ratings")

\* the items of a rating payload as one list, shows first
Combined(data) ==
    [k \in 1..Len(data.shows) |-> <<"shows", data.shows[k]>>]
    \o [k \in 1..Len(data.movies) |-> <<"movies", data.movies[k]>>]

RatingsPhaseOver ==
    /\ pc \in {"history", "save", "done"}
    /\ is_authenticated /\ exc = "none" /\ NoteCount = 0
    /\ args.sync_ratings /\ ~args.dry_run

C13_Batching ==
    LET n == Len(Combined(args.ratings_data))
        m == CeilDiv(n, BATCH_SIZE)
    IN  /\ \A k \in 1..Len(RatingsLog) : RatingsLog[k].num = k
        /\ cur.type = "ratings" =>
              /\ cur.num \in 1..m
              /\ cur.num = Len(RatingsLog) + (IF cur.result = "ok" \/ cur.result = "failed"
                                               THEN 0 ELSE 1)
              /\ Len(Combined(cur.data)) =
                    IF cur.num < m THEN BATCH_SIZE ELSE n - BATCH_SIZE * (m - 1)
              /\ Combined(cur.data) =
                    SubSeq(Combined(args.ratings_data),
                           BATCH_SIZE * (cur.num - 1) + 1, Min(BATCH_SIZE * cur.num, n))
              /\ (cur.result = "ok" /\ cur.first_status = -1) => cur.calls = 1
        /\ (RatingsPhaseOver /\ \A k \in 1..Len(RatingsLog) : RatingsLog[k].ok) =>
              Len(RatingsLog) = m

\* 120 rating items, every call answered 200: three batches, the last one
\* holding the 20 movies left
C13_Witness ==
    /\ pc = "done" /\ exc = "none" /\ NoteCount = 0
    /\ Len(Combined(args.ratings_data)) = 2 * LongList
    /\ Len(log) = 3 /\ \A k \in 1..3 : log[k].ok /\ log[k].type = "ratings"
    /\ cur.num = 3 /\ cur.calls = 1
    /\ cur.data.shows = <<>> /\ Len(cur.data.movies) = 2 * LongList - 2 * BATCH_SIZE
    /\ results.ratings_added = 2 * LongList

(***************************************************************************)
(* C16.  As claimed: a checkpoint that was saved and loaded back is         *)
(* identical to the one saved, in last_processed_index, synced_ratings,     *)
(* synced_history, errors and timestamp.                                   *)
(***************************************************************************)
C16_Original ==
    pc = "reloaded" =>
        /\ loaded.raised = "none"
        /\ loaded.value = checkpoint

(***************************************************************************)
(* C16, amended.  A checkpoint that was saved and loaded back is identical  *)
(* to the one saved in last_processed_index, synced_ratings, synced_history *)
(* and errors; its timestamp is the saved one cut to the whole second, and  *)
(* the time of saving cut to the whole second when none was set.            *)
(***************************************************************************)
C16_Amended ==
    pc = "reloaded" =>
        /\ loaded.raised = "none"
        /\ ~loaded.value.none
        /\ loaded.value.last_processed_index = checkpoint.last_processed_index
        /\ loaded.value.synced_ratings = checkpoint.synced_ratings
        /\ loaded.value.synced_history = checkpoint.synced_history
        /\ loaded.value.errors = checkpoint.errors
        /\ loaded.value.timestamp =
              IF checkpoint.timestamp.none
              THEN Datetime(now.t, 0)
              ELSE Datetime(checkpoint.timestamp.t, 0)

\* a checkpoint with an index, two ids out of order, an error and a
\* timestamp with microseconds came back with the microseconds gone
C16_Witness ==
    /\ pc = "reloaded"
    /\ checkpoint.last_processed_index = MaxIndex
    /\ checkpoint.synced_ratings = <<MaxId, 1>>
    /\ checkpoint.errors # <<>>
    /\ checkpoint.timestamp = Datetime(MaxTime, MaxMicrosecond)
    /\ loaded.value.synced_ratings = <<MaxId, 1>>
    /\ loaded.value.timestamp = Datetime(MaxTime, 0)

(***************************************************************************)
(* C14.  Every run of the sync command that reached the sync engine and is  *)
(* no dry run has written the checkpoint file when it returns.              *)
(***************************************************************************)
C14_CheckpointWritten ==
    (pc = "exit" /\ rc = 0 /\ ~args.dry_run) =>
        /\ checkpoint_file.kind = "object"
        /\ checkpoint_file.written

(***************************************************************************)
(* C15.  A run that resumed from a loaded checkpoint sends no rating of an  *)
(* entry the checkpoint lists in synced_ratings and no history of an entry  *)
(* it lists in synced_history.                                             *)
(***************************************************************************)
\* the entries of a batch: an item is the entry at its position in the
\* payload, the shows first
EntriesOf(data, whole) ==
    {data.shows[k] : k \in 1..Len(data.shows)}
    \cup {Len(whole.shows) + data.movies[k] : k \in 1..Len(data.movies)}

ListedIn(ids) == {ids[k] : k \in 1..Len(ids)}

C15_NoResend ==
    (resume /\ ~checkpoint.none /\ cur.calls > 0) =>
        /\ cur.type = "ratings" =>
              EntriesOf(cur.data, args.ratings_data) \cap ListedIn(checkpoint.synced_ratings) = {}
        /\ cur.type # "ratings" =>
              EntriesOf(cur.data, args.history_data) \cap ListedIn(checkpoint.synced_history) = {}

(***************************************************************************)
(* C17.  With --resume and a checkpoint file that is missing or holds no    *)
(* valid JSON, load_checkpoint raises nothing and gives None, and the       *)
(* command goes on to the sync as it does without a checkpoint.             *)
(***************************************************************************)
C17_CorruptCheckpoint ==
    (resume /\ pc # "cmd" /\ rc # 1
        /\ checkpoint_file.kind \in {"missing", "undecodable", "invalid_json"}) =>
        /\ exc \notin {"UnicodeDecodeError", "AttributeError"}
        /\ checkpoint.none
        /\ pc = "exit" => rc = 0 \/ exc \in {"RuntimeError", "ValueError", "TraktAuthError"}

(***************************************************************************)
(* C18.  resolve returns one Resolution for every mapped entry of the list, *)
(* in the order of the list, and none for an entry that is not mapped; the  *)
(* entry of every Resolution is mapped; every item of the generated ratings *)
(* and history payloads was generated from a mapped entry.                  *)
(***************************************************************************)
\* the entry has mapped_ids holding at least one identifier
Mapped(anime) ==
    /\ ~anime.mapped_ids.none
    /\ \/ anime.mapped_ids.tvdb_id # 0
       \/ anime.mapped_ids.imdb_id # 0
       \/ anime.mapped_ids.tmdb_show_id # 0
       \/ anime.mapped_ids.tmdb_movie_id # 0

MappedIndices == SelectSeq(Indices(anime_list), LAMBDA k : Mapped(anime_list[k]))

\* the entries the items of a payload were generated from
ItemsFrom(json) ==
    {json.shows[k].anidb_id : k \in 1..Len(json.shows)}
    \cup {json.movies[k].anidb_id : k \in 1..Len(json.movies)}

C18_OnlyMapped ==
    /\ pc \in {"resolved", "generated"} =>
          /\ Len(resolutions) = Len(MappedIndices)
          /\ \A j \in 1..Len(resolutions) :
                /\ resolutions[j].anidb_id = MappedIndices[j]
                /\ resolutions[j].anime = anime_list[MappedIndices[j]]
                /\ Mapped(resolutions[j].anime)
    /\ pc = "generated" =>
          \A k \in ItemsFrom(ratings_json) \cup ItemsFrom(history_json) :
              Mapped(anime_list[k])

\* an entry with a rating, a watched episode and mapped_ids that hold no
\* identifier, followed by a mapped one with both: one Resolution and one
\* item in either payload, for the second
C18_Witness ==
    /\ pc = "generated"
    /\ Len(anime_list) = 2
    /\ ~anime_list[1].mapped_ids.none /\ ~Mapped(anime_list[1])
    /\ ~anime_list[1].rating.none /\ anime_list[1].watched_episodes # <<>>
    /\ Len(resolutions) = 1 /\ resolutions[1].anidb_id = 2
    /\ ItemsFrom(ratings_json) = {2}
    /\ ItemsFrom(history_json) = {2}

(***************************************************************************)
(* C19.  Additive merge: episodes_to_sync of every Resolution is the        *)
(* subsequence, in local order, of the entry's watched episodes whose       *)
(* translated (season, episode) pair is not in the remote entry's watched   *)
(* set; it holds no episode whose pair is watched on the remote, and it is  *)
(* the whole local list when there is no remote entry.                     *)
(***************************************************************************)
\* specials go to season 0 with their number; regular episodes to the
\* entry's season, the offset added
Translated(ep, ids) ==
    IF ep.episode_type = "REGULAR"
    THEN <<ids.tvdb_season, ep.episode_number + ids.tvdb_epoffset>>
    ELSE <<0, ep.episode_number>>

RemoteWatchedSet(r) ==
    IF r.trakt_entry.none THEN {}
    ELSE {r.trakt_entry.watched_episodes[k] : k \in 1..Len(r.trakt_entry.watched_episodes)}

C19_AdditiveMerge ==
    pc \in {"resolved", "generated"} =>
        \A j \in 1..Len(resolutions) :
            LET r == resolutions[j]
                local == r.anime.watched_episodes
                new(ep) == Translated(ep, r.anime.mapped_ids) \notin RemoteWatchedSet(r)
            IN  /\ r.episodes_to_sync = SelectSeq(local, new)
                /\ \A k \in 1..Len(r.episodes_to_sync) : new(r.episodes_to_sync[k])
                /\ r.trakt_entry.none => r.episodes_to_sync = local

\* offset 1: local episodes 2 and 1, the remote has watched (1, 2), which
\* is local episode 1; only local episode 2 is to be synced
C19_Witness ==
    /\ pc = "resolved"
    /\ Len(resolutions) = 1
    /\ resolutions[1].anime.mapped_ids.tvdb_epoffset = 1
    /\ Len(resolutions[1].anime.watched_episodes) = 2
    /\ resolutions[1].anime.watched_episodes[1].episode_number = 2
    /\ resolutions[1].anime.watched_episodes[2].episode_number = 1
    /\ \A k \in 1..2 : resolutions[1].anime.watched_episodes[k].episode_type = "REGULAR"
    /\ <<1, 2>> \in RemoteWatchedSet(resolutions[1])
    /\ resolutions[1].episodes_to_sync = <<resolutions[1].anime.watched_episodes[1]>>

(***************************************************************************)
(* C20.  Older timestamp wins: when the local and the remote rating are     *)
(* both present with different scores and both have a rated_at, the local   *)
(* rating is kept if its rated_at is strictly earlier than the remote one,  *)
(* and not kept if the remote rated_at is strictly earlier.                 *)
(***************************************************************************)
C20_OlderWins ==
    pc \in {"resolved", "generated"} =>
        \A j \in 1..Len(resolutions) :
            LET r == resolutions[j]
                local == r.anime.rating
                remote == r.trakt_entry
            IN  (/\ ~local.none /\ ~remote.none /\ remote.rating # 0
                 /\ local.score # remote.rating
                 /\ ~local.rated_at.none /\ ~remote.rated_at.none) =>
                    /\ local.rated_at.t < remote.rated_at.t => r.keep_anidb_rating
                    /\ remote.rated_at.t < local.rated_at.t => ~r.keep_anidb_rating

\* local 8 rated 2023-04-15, remote 7 rated 2024-01-01: local is kept
C20_Witness ==
    /\ pc = "resolved"
    /\ Len(resolutions) = 1
    /\ resolutions[1].anime.rating = AnimeRating(8, Datetime(20230415, 0))
    /\ resolutions[1].trakt_entry.rating = 7
    /\ resolutions[1].trakt_entry.rated_at = Datetime(20240101, 0)
    /\ resolutions[1].rating_conflict
    /\ resolutions[1].keep_anidb_rating

(***************************************************************************)
(* C21.  As stated: when the ratings conflict and either the two rated_at   *)
(* are equal or the remote rating has no rated_at, the local rating is      *)
(* kept, whatever the local rated_at is.  C21_Original is that statement;   *)
(* the code decides otherwise on a tie and when the local rating has no     *)
(* rated_at.  C21_Amended: when the ratings conflict, the local rating is   *)
(* kept if the remote rating has no rated_at and the local one has, and is  *)
(* not kept if the two rated_at are equal or the local rating has none.     *)
(***************************************************************************)
\* the Resolutions whose ratings conflict: both present, scores differing
Conflicting ==
    {j \in 1..Len(resolutions) :
        /\ ~resolutions[j].anime.rating.none
        /\ ~resolutions[j].trakt_entry.none
        /\ resolutions[j].trakt_entry.rating # 0
        /\ resolutions[j].anime.rating.score # resolutions[j].trakt_entry.rating}

\* the two rated_at are set and equal
Tie(r) ==
    /\ ~r.anime.rating.rated_at.none
    /\ r.anime.rating.rated_at = r.trakt_entry.rated_at

C21_Original ==
    pc \in {"resolved", "generated"} =>
        \A j \in Conflicting :
            LET r == resolutions[j]
            IN  (Tie(r) \/ r.trakt_entry.rated_at.none) => r.keep_anidb_rating

C21_Amended ==
    pc \in {"resolved", "generated"} =>
        \A j \in Conflicting :
            LET r == resolutions[j]
            IN  /\ (r.trakt_entry.rated_at.none /\ ~r.anime.rating.rated_at.none)
                      => r.keep_anidb_rating
                /\ (Tie(r) \/ r.anime.rating.rated_at.none) => ~r.keep_anidb_rating

\* local 8 and remote 7, both rated 2023-04-15: the local rating is not kept
C21_Witness ==
    /\ pc = "resolved"
    /\ Conflicting = {1}
    /\ Tie(resolutions[1])
    /\ resolutions[1].anime.rating.rated_at = Datetime(20230415, 0)
    /\ resolutions[1].rating_conflict
    /\ ~resolutions[1].keep_anidb_rating

(***************************************************************************)
(* C22.  map_episode_to_trakt: in the history payload of a show, every      *)
(* watched episode of the entry whose type is not Regular is listed in      *)
(* season 0 under its own number, whatever tvdb_season and tvdb_epoffset    *)
(* are, every Regular episode is listed in season tvdb_season under         *)
(* episode_number + tvdb_epoffset, and nothing else is listed.              *)
(***************************************************************************)
\* the (season, episode) pairs listed by an item of the history payload
PairsOf(item) ==
    UNION {{<<item.seasons[s].number, item.seasons[s].episodes[e].number>> :
                e \in 1..Len(item.seasons[s].episodes)} : s \in 1..Len(item.seasons)}

C22_EpisodeTranslation ==
    pc = "generated" =>
        \A j \in 1..Len(history_json.shows) :
            LET item == history_json.shows[j]
                anime == anime_list[item.anidb_id]
                ids == anime.mapped_ids
                eps == anime.watched_episodes
                regular == {k \in 1..Len(eps) : eps[k].episode_type = "REGULAR"}
            IN  PairsOf(item) =
                    {<<0, eps[k].episode_number>> : k \in (1..Len(eps)) \ regular}
                    \cup {<<ids.tvdb_season, eps[k].episode_number + ids.tvdb_epoffset>> :
                              k \in regular}

\* season 2: Credits episode 2 is listed as (0, 2), Regular episode 2 as
\* (2, 2); offset 1 is seen by C19_Witness
C22_Witness ==
    /\ pc = "generated"
    /\ Len(anime_list) = 1
    /\ anime_list[1].mapped_ids.tvdb_season = 2
    /\ Len(anime_list[1].watched_episodes) = 2
    /\ anime_list[1].watched_episodes[1].episode_type = "CREDITS"
    /\ anime_list[1].watched_episodes[1].episode_number = 2
    /\ anime_list[1].watched_episodes[2].episode_type = "REGULAR"
    /\ anime_list[1].watched_episodes[2].episode_number = 2
    /\ Len(history_json.shows) = 1
    /\ PairsOf(history_json.shows[1]) = {<<0, 2>>, <<2, 2>>}

HeldUnder(key, movie) ==
    IF trakt.ratings[key].none /\ trakt.watched[key].none THEN NoTraktEntry
    ELSE [none |-> FALSE,
          trakt_id |-> IF trakt.ratings[key].none THEN trakt.watched[key].trakt_id
                       ELSE trakt.ratings[key].trakt_id,
          title |-> IF trakt.ratings[key].none THEN trakt.watched[key].title
                    ELSE trakt.ratings[key].title,
          rating |-> IF trakt.ratings[key].none THEN 0 ELSE trakt.ratings[key].rating,
          rated_at |-> IF trakt.ratings[key].none THEN NoDatetime
                       ELSE trakt.ratings[key].rated_at,
          watched_episodes |-> IF trakt.watched[key].none THEN <<>>
                               ELSE watched_episodes_of(trakt.watched[key].seasons),
          is_movie |-> movie]

C24_KeyDerivation ==
    pc \in {"resolved", "resolved_twice", "generated"} =>
        \A j \in 1..Len(resolutions) :
            LET r == resolutions[j]
                ids == r.anime.mapped_ids
            IN  /\ (ids.tmdb_movie_id # 0 /\ ids.tvdb_id = 0) =>
                        r.trakt_entry = HeldUnder(<<"movie", ids.tmdb_movie_id>>, TRUE)
                /\ ids.tvdb_id # 0 =>
                        r.trakt_entry = HeldUnder(<<"show", ids.tvdb_id>>, FALSE)

\* tvdb_id 2 with imdb, tmdb show and tmdb movie identifier 1: the entry of
\* show_2 (rating 6), not the one of movie_1 (rating 9)
C24_Witness ==
    /\ pc = "resolved"
    /\ trakt.ratings[<<"movie", 1>>].rating = 9
    /\ trakt.ratings[<<"show", 2>>].rating = 6
    /\ Len(resolutions) = 1
    /\ resolutions[1].anime.mapped_ids.tvdb_id = 2
    /\ resolutions[1].anime.mapped_ids.tmdb_movie_id = 1
    /\ resolutions[1].anime.mapped_ids.imdb_id = 1
    /\ resolutions[1].trakt_entry.rating = 6
    /\ resolutions[1].trakt_entry.watched_episodes = <<<<0, 2>>, <<0, 1>>>>

(***************************************************************************)
(* C25.  The history payload handed to the batch sync engine is the         *)
(* reconciled one: for every show it lists only the episodes of the         *)
(* entry's episodes_to_sync, so that no (season, episode) pair that the     *)
(* fetched remote state holds as watched is pushed.                         *)
(***************************************************************************)
\* the Resolution of the entry an item was generated from
ResolutionOf(item) ==
    resolutions[CHOOSE j \in 1..Len(resolutions) : resolutions[j].anidb_id = item.anidb_id]

C25_HistoryReconciled ==
    pc = "generated" =>
        \A j \in 1..Len(history_json.shows) :
            LET item == history_json.shows[j]
                r == ResolutionOf(item)
            IN  /\ PairsOf(item) =
                      {Translated(r.episodes_to_sync[k], r.anime.mapped_ids) :
                          k \in 1..Len(r.episodes_to_sync)}
                /\ PairsOf(item) \cap RemoteWatchedSet(r) = {}

(***************************************************************************)
(* C26.  The ratings payload holds the local rating of a mapped, rated      *)
(* entry if and only if the entry's Resolution does not say rating_conflict *)
(* with keep_anidb_rating false; it holds the local score, and a rating     *)
(* that lost the conflict to the remote rating is not in it.                *)
(***************************************************************************)
\* the items of the ratings payload
RatingItems ==
    {ratings_json.shows[k] : k \in 1..Len(ratings_json.shows)}
    \cup {ratings_json.movies[k] : k \in 1..Len(ratings_json.movies)}

C26_RatingsPayload ==
    pc = "generated" =>
        /\ \A k \in 1..Len(anime_list) :
              (Mapped(anime_list[k]) /\ ~anime_list[k].rating.none) =>
                  LET lost == \E j \in 1..Len(resolutions) :
                                  /\ resolutions[j].anidb_id = k
                                  /\ resolutions[j].rating_conflict
                                  /\ ~resolutions[j].keep_anidb_rating
                  IN  (\E item \in RatingItems : item.anidb_id = k) <=> ~lost
        /\ \A item \in RatingItems :
              /\ ~anime_list[item.anidb_id].rating.none
              /\ item.rating = anime_list[item.anidb_id].rating.score

\* two rated entries: the first kept its rating in a conflict and is in
\* the payload, the second lost to the remote rating and is not
C26_Witness ==
    /\ pc = "generated"
    /\ Len(resolutions) = 2
    /\ resolutions[1].rating_conflict /\ resolutions[1].keep_anidb_rating
    /\ resolutions[2].rating_conflict /\ ~resolutions[2].keep_anidb_rating
    /\ {item.anidb_id : item \in RatingItems} = {1}

(***************************************************************************)
(* C27.  Every request that _request issues, a retried attempt included,    *)
(* is issued no earlier than the recorded time of the previous request plus *)
(* the minimum interval of its own kind: 1.0 s for POST, PUT and DELETE,    *)
(* 0.3 s for the others, the first being the larger.                        *)
(***************************************************************************)
C27_RateLimit ==
    /\ POST_RATE_LIMIT > GET_RATE_LIMIT
    /\ request.issued_at # -1 =>
          request.issued_at >=
              request.previous + (IF request.method \in {"POST", "PUT", "DELETE"}
                                  THEN 10 ELSE 3)

\* the third attempt of a DELETE, after two 429 with Retry-After 0, is
\* issued exactly one second after the time recorded for the second
C27_Witness ==
    /\ pc = "response"
    /\ request.method = "DELETE"
    /\ request.attempt = 2
    /\ request.previous > 0
    /\ request.issued_at = request.previous + 10

(***************************************************************************)
(* C28.  fetch never raises because of a failing query: whichever of the    *)
(* three queries (show ratings, movie ratings, watched shows) fail, the     *)
(* others are still issued and what they returned is indexed; with a client *)
(* that is not authenticated, fetch issues no query and leaves both maps    *)
(* as they are.                                                             *)
(***************************************************************************)
\* the key prefix under which the items of a query are indexed
PrefixOf(name) == IF name = "ratings/movies" THEN "movie" ELSE "show"

\* the maps hold the item of the query
Holds(maps, q, item) ==
    LET key == <<PrefixOf(q.query), item.id>>
    IN  IF q.query = "watched/shows"
        THEN maps.watched[key] = RemoteWatched(item.value)
        ELSE /\ ~maps.ratings[key].none
             /\ maps.ratings[key].rating = item.value.rating
             /\ maps.ratings[key].rated_at.none = item.value.rated_at.none
             /\ maps.ratings[key].rated_at.t = item.value.rated_at.seconds

C28_FetchNeverRaises ==
    [][/\ exc' \in {"none", "KeyboardInterrupt"}
       /\ ~is_authenticated => (queries' = <<>> /\ trakt' = trakt)
       /\ (pc' = "fetched" /\ is_authenticated) =>
             /\ [n \in 1..Len(queries') |-> queries'[n].query] =
                    <<"ratings/shows", "ratings/movies", "watched/shows">>
             /\ \A n \in 1..3 :
                   queries'[n].raised = "none" =>
                       \A k \in 1..Len(queries'[n].items) :
                           queries'[n].items[k].id # 0 =>
                               Holds(trakt', queries'[n], queries'[n].items[k])]_vars

\* the show ratings and the watched shows failed, the movie ratings were
\* indexed: movie_2 is new in the map
C28_Witness ==
    /\ pc = "fetched"
    /\ Len(queries) = 3
    /\ queries[1].raised = "TraktAPIError"
    /\ queries[2].raised = "none"
    /\ queries[3].raised = "AttributeError"
    /\ Len(queries[2].items) = 2
    /\ ~trakt.ratings[<<"movie", 2>>].none
    /\ exc = "none"

(***************************************************************************)
(* C29.  As stated: a batch whose request fails with a network failure is   *)
(* treated like a 5xx, the engine waits the backoff and retries the batch   *)
(* once before recording it as failed.  C29_Original is that statement.     *)
(* The client retries a transport error itself and, out of attempts,        *)
(* raises an API error of status code 0; C29_Amended: the engine does not   *)
(* retry such a batch and waits no backoff, it records the batch as failed  *)
(* at once, as one more consecutive failure.                                *)
(***************************************************************************)
\* the first call for the batch sent last ended in "Request failed": the
\* last attempt of the client met a transport error
NetworkFailure ==
    cur.first_status = 0 /\ ~cur.max_retries_exceeded /\ cur.exception = ""

C29_Original ==
    (NetworkFailure /\ cur.result = "failed") =>
        /\ cur.calls = 2
        /\ cur.backoff_slept = Backoff(cur.cf_before)

C29_Amended ==
    NetworkFailure =>
        /\ cur.calls = 1
        /\ cur.backoff_slept = 0
        /\ cur.result = "failed"
        /\ RecordedOnce(cur)
        /\ cur.cf_after = cur.cf_before + 1

\* the second batch in a row that failed with a network failure
C29_Witness ==
    /\ NetworkFailure
    /\ cur.result = "failed"
    /\ cur.cf_before = 1
    /\ Len(log) = 2 /\ ~log[1].ok /\ ~log[2].ok
    /\ Len(results.failed_batches) = 2

(***************************************************************************)
(* C30.  A batch that succeeds, at its first call or at its retry, resets   *)
(* the consecutive-failure counter to zero, so the circuit breaker trips    *)
(* only on three failed batches of a chain with no successful batch         *)
(* between them: a run whose batches end fail, fail, success, fail, fail    *)
(* is not stopped early and attempts every batch.                           *)
(***************************************************************************)
\* the outcomes of the finished batches, TRUE for a success
OutcomesOfLog == [k \in 1..Len(log) |-> log[k].ok]

C30_SuccessResets ==
    /\ cur.result = "ok" => (cur.cf_after = 0 /\ consecutive_failures = 0)
    /\ (results.stopped_early /\ NoteCount = 0) =>
          \E k \in 1..Len(log) :
              \A j \in (k - 2)..k :
                  j >= 1 /\ ~log[j].ok /\ Chain(log[j].type) = Chain(log[k].type)
    /\ (OutcomesOfLog = <<FALSE, FALSE, TRUE, FALSE, FALSE>> /\ NoteCount = 0) =>
          ~results.stopped_early
    /\ (pc = "done" /\ exc = "none" /\ ~results.stopped_early) =>
          Cardinality(Attempted) = InputBatches(args)

\* five history batches: two failed, the third succeeded, two more
\* failed; the run ended with nothing left unsent
C30_Witness ==
    /\ pc = "done" /\ exc = "none"
    /\ OutcomesOfLog = <<FALSE, FALSE, TRUE, FALSE, FALSE>>
    /\ \A k \in 1..5 : Chain(log[k].type) = "history"
    /\ InputBatches(args) = 5
    /\ ~results.stopped_early
    /\ Len(results.failed_batches) = 4
    /\ cur.cf_after = 2

(***************************************************************************)
(* C31.  The backoff slept before the retry of a batch is min(5 * 2^k, 60)  *)
(* seconds, k being the consecutive-failure counter when the batch is       *)
(* attempted: 5 seconds for k = 0, twice the backoff of k - 1 up to the cap *)
(* of 60 seconds, and never more than 60 seconds.                           *)
(***************************************************************************)
\* the values of the counter the backoff is computed for
MaxCounter == 6

C31_Backoff ==
    /\ cur.backoff_slept > 0 =>
          cur.backoff_slept =
              (IF 5 * (2 ^ cur.cf_before) < 60 THEN 5 * (2 ^ cur.cf_before) ELSE 60)
    /\ cur.calls = 2 => cur.backoff_slept > 0
    /\ Backoff(0) = 5
    /\ \A k \in 1..MaxCounter :
          /\ Backoff(k) = (IF 2 * Backoff(k - 1) < 60 THEN 2 * Backoff(k - 1) ELSE 60)
          /\ Backoff(k) <= 60

\* the third batch in a row whose first call met a server error: the retry
\* was made after 20 seconds
C31_Witness ==
    /\ cur.calls = 2
    /\ cur.cf_before = 2
    /\ cur.backoff_slept = 20
    /\ cur.first_status = 503

(***************************************************************************)
(* C32.  The payload of a history request holds exactly one of the keys     *)
(* shows and movies, the one of its batch type, with at most 50 items, and  *)
(* no show batch is sent after a movie batch; the payload of a ratings      *)
(* request is a slice of the shows followed by the movies and holds at most *)
(* 50 items in all, under one key or under both.                            *)
(***************************************************************************)
\* the keys of a payload: a key is present when its list is not empty
KeysOf(data) ==
    {k \in {"shows", "movies"} :
        (k = "shows" /\ data.shows # <<>>) \/ (k = "movies" /\ data.movies # <<>>)}

ItemCount(data) == Len(data.shows) + Len(data.movies)

\* the payloads handed to sync_func: that of the batch sent last and those
\* recorded as failed
Sent ==
    (IF cur.type = "" THEN {} ELSE {[type |-> cur.type, data |-> cur.data]})
    \cup {results.failed_batches[k] : k \in 1..Len(results.failed_batches)}

ShowsBeforeMovies ==
    /\ \A j, k \in 1..Len(log) :
          (j < k /\ log[j].type = "history/movies") => log[k].type = "history/movies"
    /\ (cur.type = "history/shows" /\ cur.result = "pending") =>
          \A j \in 1..Len(log) : log[j].type # "history/movies"

C32_PayloadKinds ==
    /\ \A b \in Sent :
          /\ ItemCount(b.data) >= 1 /\ ItemCount(b.data) <= 50
          /\ b.type = "history/shows" => KeysOf(b.data) = {"shows"}
          /\ b.type = "history/movies" => KeysOf(b.data) = {"movies"}
          /\ b.type = "ratings" => KeysOf(b.data) # {}
    /\ ShowsBeforeMovies

\* the second ratings batch held the last 10 shows and the first 40 movies
\* and failed; the last history batch, of 10 movies, is being sent
C32_Witness ==
    /\ \E b \in Sent :
          /\ b.type = "ratings"
          /\ Len(b.data.shows) = 10 /\ Len(b.data.movies) = 40
    /\ cur.type = "history/movies" /\ cur.result = "pending"
    /\ KeysOf(cur.data) = {"movies"} /\ ItemCount(cur.data) = 10

(***************************************************************************)
(* C33.  In every Resolution rating_conflict is true exactly when the entry *)
(* has a local rating, the remote entry exists and has a rating, and the    *)
(* two scores differ; keep_anidb_rating is false only in a Resolution with  *)
(* rating_conflict true: without a local rating, without a remote entry,    *)
(* without a remote rating or with equal scores, rating_conflict is false   *)
(* and keep_anidb_rating is true.                                           *)
(***************************************************************************)
C33_RatingConflict ==
    pc \in {"resolved", "resolved_twice", "generated"} =>
        \A j \in 1..Len(resolutions) :
            LET r == resolutions[j]
                local == ~r.anime.rating.none
                remote == ~r.trakt_entry.none /\ r.trakt_entry.rating # 0
                differ == r.anime.rating.score # r.trakt_entry.rating
            IN  /\ r.rating_conflict <=> (local /\ remote /\ differ)
                /\ ~r.keep_anidb_rating => r.rating_conflict
                /\ (~local \/ r.trakt_entry.none \/ r.trakt_entry.rating = 0 \/ ~differ) =>
                       (~r.rating_conflict /\ r.keep_anidb_rating)

\* local 8 rated 2024-01-01, remote 8 rated 2023-04-15: the remote rating
\* is the older one, the scores are equal, and there is no conflict
C33_Witness ==
    /\ pc = "resolved"
    /\ Len(resolutions) = 1
    /\ resolutions[1].anime.rating = AnimeRating(8, Datetime(20240101, 0))
    /\ resolutions[1].trakt_entry.rating = 8
    /\ resolutions[1].trakt_entry.rated_at = Datetime(20230415, 0)
    /\ ~resolutions[1].rating_conflict
    /\ resolutions[1].keep_anidb_rating

(***************************************************************************)
(* C34.  get_entry returns a remote entry exactly when a key can be derived *)
(* for the entry (movie_<tmdb_movie_id> without a tvdb_id, show_<tvdb_id>   *)
(* with one) and the ratings map or the watched map holds that key, and     *)
(* None otherwise: an entry mapped by imdb_id or tmdb_show_id alone is      *)
(* resolved as new.  When both maps hold the key, the title and the         *)
(* trakt_id of the remote entry are those of the ratings map and its        *)
(* watched episodes are the (season, episode) pairs of the seasons of the   *)
(* watched map.                                                            *)
(***************************************************************************)
\* the keys that can be derived for mapped identifiers: one or none
DerivedKeys(ids) ==
    {k \in Keys :
        \/ k[1] = "show" /\ k[2] = ids.tvdb_id
        \/ k[1] = "movie" /\ ids.tvdb_id = 0 /\ k[2] = ids.tmdb_movie_id}

\* the (season, episode) pairs of the seasons of a value of the watched map
PairsIn(seasons) ==
    UNION {{<<seasons[s].number, seasons[s].episodes[e]>> :
                e \in 1..Len(seasons[s].episodes)} : s \in 1..Len(seasons)}

C34_GetEntry ==
    pc \in {"resolved", "resolved_twice", "generated"} =>
        \A j \in 1..Len(resolutions) :
            LET r == resolutions[j]
                ids == r.anime.mapped_ids
                entry == r.trakt_entry
                held == {k \in DerivedKeys(ids) :
                            ~trakt.ratings[k].none \/ ~trakt.watched[k].none}
            IN  /\ ~entry.none <=> held # {}
                /\ (ids.tvdb_id = 0 /\ ids.tmdb_movie_id = 0) => entry.none
                /\ \A k \in held :
                      (~trakt.ratings[k].none /\ ~trakt.watched[k].none) =>
                          /\ entry.title = trakt.ratings[k].title
                          /\ entry.trakt_id = trakt.ratings[k].trakt_id
                          /\ Len(entry.watched_episodes) =
                                 Cardinality(PairsIn(trakt.watched[k].seasons))
                          /\ \A n \in 1..Len(entry.watched_episodes) :
                                 entry.watched_episodes[n] \in
                                     PairsIn(trakt.watched[k].seasons)

\* show_2 is held by both maps, its season 0 with the episodes 2 and 1: the
\* remote entry has the title of the ratings map and the pairs (0, 2), (0, 1)
C34_Witness ==
    /\ pc = "resolved"
    /\ Len(resolutions) = 1
    /\ resolutions[1].anime.mapped_ids.tvdb_id = 2
    /\ ~trakt.ratings[<<"show", 2>>].none
    /\ trakt.watched[<<"show", 2>>].seasons = <<Season(0, <<2, 1>>)>>
    /\ resolutions[1].trakt_entry.title = trakt.ratings[<<"show", 2>>].title
    /\ resolutions[1].trakt_entry.title # trakt.watched[<<"show", 2>>].title
    /\ resolutions[1].trakt_entry.watched_episodes = <<<<0, 2>>, <<0, 1>>>>

(***************************************************************************)
(* C36.  The consecutive-failure counter is between 0 and 3 in every state  *)
(* of a run, and at most 2 whenever a batch is sent or its backoff is       *)
(* slept: the counter a batch is attempted with is 0, 1 or 2, the backoff   *)
(* slept before a retry is 5, 10 or 20 seconds, and the cap of 60 seconds   *)
(* is never reached.                                                       *)
(***************************************************************************)
C36_CounterRange ==
    /\ consecutive_failures >= 0 /\ consecutive_failures <= 3
    /\ pc \in {"request", "backoff"} => consecutive_failures <= 2
    /\ cur.cf_before >= 0 /\ cur.cf_before <= 2
    /\ cur.backoff_slept \in {0, 5, 10, 20}
    /\ cur.calls = 2 => (cur.backoff_slept >= 5 /\ cur.backoff_slept < 60)

\* the third batch in a row failed after a retry that came 20 seconds
\* after its first call: the counter is 3 and the run sends nothing more
C36_Witness ==
    /\ consecutive_failures = 3
    /\ cur.cf_before = 2 /\ cur.cf_after = 3
    /\ cur.calls = 2 /\ cur.backoff_slept = 20
    /\ cur.result = "failed"
    /\ pc \in {"history", "save"}

(***************************************************************************)
(* C37.  The consecutive-failure counter a batch is attempted with is the   *)
(* number of failed batches of its phase (ratings; history, shows and       *)
(* movies together) that precede it without a successful one in between:    *)
(* it is zero for the first ratings batch and for the first history batch,  *)
(* and goes on from the show batches to the movie batches.  Two failed      *)
(* batches at the end of the ratings and a failed first history batch do    *)
(* not stop the run; two failed batches at the end of the history shows     *)
(* and a failed first movie batch do.                                       *)
(***************************************************************************)
\* the number of batches at the end of the first n of the log that failed
\* and are of the phase
RECURSIVE FailedInARow(_, _)
FailedInARow(phase, n) ==
    IF n = 0 \/ log[n].ok \/ Chain(log[n].type) # phase THEN 0
    ELSE 1 + FailedInARow(phase, n - 1)

\* the batches finished before the batch sent last
Before == IF cur.result \in {"ok", "failed"} THEN Len(log) - 1 ELSE Len(log)

\* the batches k - 2, k - 1 and k all failed
ThreeFailed(k) == k >= 3 /\ \A j \in (k - 2)..k : ~log[j].ok

C37_CounterPerPhase ==
    /\ (cur.type # "" /\ cur.calls > 0) =>
          cur.cf_before = FailedInARow(Chain(cur.type), Before)
    /\ \A k \in 1..Len(log) :
          (/\ ThreeFailed(k)
           /\ log[k - 2].type = "ratings" /\ log[k - 1].type = "ratings"
           /\ log[k].type # "ratings"
           /\ k = Len(log) /\ NoteCount = 0) =>
              ~results.stopped_early
    /\ \A k \in 1..Len(log) :
          (/\ ThreeFailed(k)
           /\ log[k - 2].type = "history/shows" /\ log[k - 1].type = "history/shows"
           /\ log[k].type = "history/movies") =>
              (results.stopped_early /\ k = Len(log) /\ pc \in {"save", "done"})

\* both ratings batches failed and so did the first history batch, of shows:
\* the second history batch is being sent with the counter at 1
C37_Witness ==
    /\ Len(log) = 3 /\ ThreeFailed(3)
    /\ log[1].type = "ratings" /\ log[2].type = "ratings"
    /\ log[3].type = "history/shows"
    /\ ~results.stopped_early
    /\ pc = "request" /\ cur.result = "pending"
    /\ cur.type = "history/shows" /\ cur.num = 2
    /\ cur.cf_before = 1

(***************************************************************************)
(* C38.  When a sync that is no dry run has returned with stopped_early     *)
(* false, the batches attempted are, in this order and each once (the       *)
(* retry being part of the attempt), the ratings batches 1, 2, ..., the     *)
(* history batches of the shows 1, 2, ... and the history batches of the    *)
(* movies 1, 2, ..., of the categories that were requested and are not      *)
(* empty; when it has returned with stopped_early true, the batches         *)
(* attempted are a prefix of that list.                                     *)
(***************************************************************************)
\* the batches 1..ceil(n / 50) of a list of n items
NumberedBatches(type, n) == [k \in 1..CeilDiv(n, 50) |-> <<type, k>>]

\* the batches of the requested categories, in order
ExpectedBatches ==
    (IF args.sync_ratings
     THEN NumberedBatches("ratings",
                          Len(args.ratings_data.shows) + Len(args.ratings_data.movies))
     ELSE <<>>)
    \o (IF args.sync_history
        THEN NumberedBatches("history/shows", Len(args.history_data.shows))
             \o NumberedBatches("history/movies", Len(args.history_data.movies))
        ELSE <<>>)

\* the batches attempted, in order: the finished ones, and the one that
\* was being sent when the run was interrupted
AttemptedInOrder ==
    [k \in 1..Len(log) |-> <<log[k].type, log[k].num>>]
    \o (IF cur.result = "interrupted" /\ cur.calls > 0
        THEN <<(<<cur.type, cur.num>>)>> ELSE <<>>)

Returned == pc = "done" /\ exc = "none" /\ ~args.dry_run

C38_AttemptOrder ==
    /\ cur.calls <= 2
    /\ (Returned /\ ~results.stopped_early) => AttemptedInOrder = ExpectedBatches
    /\ (Returned /\ results.stopped_early) =>
          /\ Len(AttemptedInOrder) <= Len(ExpectedBatches)
          /\ AttemptedInOrder = SubSeq(ExpectedBatches, 1, Len(AttemptedInOrder))

\* ratings were requested and there are none: the two show batches and the
\* two movie batches of the history were attempted in this order, the first
\* of them twice, and stopped_early is false
C38_Witness ==
    /\ Returned /\ ~results.stopped_early
    /\ args.sync_ratings /\ ~Truthy(args.ratings_data)
    /\ AttemptedInOrder =
          <<(<<"history/shows", 1>>), (<<"history/shows", 2>>),
            (<<"history/movies", 1>>), (<<"history/movies", 2>>)>>
    /\ log[1].retried

(***************************************************************************)
(* C35: sync terminates for every finite payload and every sequence of      *)
(* remote responses; it makes at most two sync calls for a batch and the    *)
(* client at most three HTTP attempts in a sync call.  As the claim has it, *)
(* the HTTP requests of a run are therefore at most six times the number    *)
(* of batches (C35_Original); but an attempt whose headers are built     *)
(* when the token is about to expire is preceded by the POST of             *)
(* _refresh_token, so the bound that holds is twelve times the number of    *)
(* batches, six of them sync requests and six token refreshes               *)
(* (C35_Amended).                                                  *)
(***************************************************************************)
\* the HTTP requests issued so far in the run
HttpRequests == posts.sync + posts.oauth

\* the sync calls counted for a batch and the attempts counted for a call
CallsAndAttemptsBounded ==
    /\ cur.calls <= 2
    /\ attempt < retries
    /\ flight.https <= retries
    /\ Len(log) <= InputBatches(args)

Terminated == pc = "done"

SixPerBatch ==
    /\ CallsAndAttemptsBounded
    /\ HttpRequests <= 2 * retries * InputBatches(args)

C35_Original == []SixPerBatch /\ <>Terminated

TwelvePerBatch ==
    /\ CallsAndAttemptsBounded
    /\ posts.sync <= 2 * retries * InputBatches(args)
    /\ posts.oauth <= 2 * retries * InputBatches(args)
    /\ HttpRequests <= 2 * 2 * retries * InputBatches(args)

C35_Amended == []TwelvePerBatch /\ <>Terminated

\* every attempt of every call of every batch was made, each after a refresh
C35_Witness ==
    /\ Terminated
    /\ InputBatches(args) > 0
    /\ Len(log) = InputBatches(args)
    /\ posts.sync = 2 * retries * InputBatches(args)
    /\ posts.oauth = posts.sync

(***************************************************************************)
(* C39: a dry run started through sync_to_trakt never sends a sync request  *)
(* (a POST to /sync/ratings or /sync/history): the engine, once entered,    *)
(* issues no remote call at all.  The remote calls of the run are the read  *)
(* queries of the fetcher, made for resolve_conflicts before the engine is  *)
(* entered.  As the claim has it these are the only remote calls and no     *)
(* POST is issued (C39_Original); but every attempt of a read query builds  *)
(* its headers through _access_token, which POSTs to /oauth/token when the  *)
(* token is about to expire, so a dry run may issue that POST, at most once *)
(* for each attempt of a read query (C39_Amended).                          *)
(***************************************************************************)
\* the sync engine has been entered and has not returned
InEngine == pc \in {"entry", "ratings", "history", "request", "backoff", "save"}

\* no sync request was sent and no batch was begun
NoSyncRequest ==
    /\ posts.sync = 0
    /\ pc \notin {"request", "backoff"}
    /\ cur = NoBatch /\ flight = NoFlight
    /\ log = <<>> /\ accepted = {}

\* the queries issued so far are the read queries of the fetcher, in order
ReadQueries(q) ==
    /\ Len(q) <= 3
    /\ [n \in 1..Len(q) |-> q[n].query] =
          SubSeq(<<"ratings/shows", "ratings/movies", "watched/shows">>, 1, Len(q))

\* inside the engine no remote call is made
NoRemoteCallInEngine == InEngine => (queries' = queries /\ posts' = posts)

C39_Original ==
    [][args'.dry_run =>
          /\ NoSyncRequest'
          /\ posts'.oauth = 0
          /\ ReadQueries(queries')
          /\ NoRemoteCallInEngine]_vars

C39_Amended ==
    [][args'.dry_run =>
          /\ NoSyncRequest'
          /\ posts'.oauth <= retries * Len(queries')
          /\ ReadQueries(queries')
          /\ NoRemoteCallInEngine]_vars

\* a dry run has returned its counts after the three queries, the token
\* refreshed on the way
C39_Witness ==
    /\ args.dry_run
    /\ pc = "done" /\ exc = "none"
    /\ Len(queries) = 3
    /\ posts.oauth > 0
    /\ posts.sync = 0
    /\ results.ratings_added + results.history_added > 0
====
